---- MODULE Spec2Model ----
(***************************************************************************)
(* NetBox administrative scripts of the repository (src/Scripts):          *)
(*   CBSD Patch Port rename.py      RenamePatchPanelPortsCBSD              *)
(*   fiber module bay - positions.py FixModuleBayPositions                 *)
(*   Manager Permissions.py         ManagerPackGenerator                   *)
(*   create_vm 2.1.py               NewVM                                  *)
(*   relabel_frontports_suffix.py   LabelPorts                             *)
(* Each script is a one-shot procedure over the object store.  A Python    *)
(* str is a sequence of one-character strings; Python None, where a str is *)
(* expected, is the empty tuple of an option (<<>> is None, <<s>> is s).   *)
(***************************************************************************)
EXTENDS Integers, Sequences, FiniteSets, TLC

(***************************************************************************)
(* Characters and Python str operations                                    *)
(***************************************************************************)
UpperSeq == << "A","B","C","D","E","F","G","H","I","J","K","L","M",
               "N","O","P","Q","R","S","T","U","V","W","X","Y","Z" >>
LowerSeq == << "a","b","c","d","e","f","g","h","i","j","k","l","m",
               "n","o","p","q","r","s","t","u","v","w","x","y","z" >>
DigitSeq == << "0","1","2","3","4","5","6","7","8","9" >>

\* Code-point order of the characters the model uses (ASCII order).
CharOrder == << " ", ",", "-" >> \o DigitSeq \o UpperSeq \o << "_" >> \o LowerSeq

Range(f) == { f[i] : i \in DOMAIN f }

DigitSet == Range(DigitSeq)
UpperSet == Range(UpperSeq)
LowerSet == Range(LowerSeq)
\* \w of the re module: letters, digits and the underscore
WordSet == UpperSet \cup LowerSet \cup DigitSet \cup {"_"}

OrdMap == [ c \in Range(CharOrder) |-> CHOOSE i \in DOMAIN CharOrder : CharOrder[i] = c ]
DigitMap == [ c \in DigitSet |-> (CHOOSE i \in DOMAIN DigitSeq : DigitSeq[i] = c) - 1 ]
LowerMap == [ c \in UpperSet |-> LowerSeq[CHOOSE i \in DOMAIN UpperSeq : UpperSeq[i] = c] ]
UpperMap == [ c \in LowerSet |-> UpperSeq[CHOOSE i \in DOMAIN LowerSeq : LowerSeq[i] = c] ]

IsDigitChar(c) == c \in DigitSet
IsSpaceChar(c) == c = " "
IsWordChar(c) == c \in WordSet

Ord(c) == OrdMap[c]
DigitVal(c) == DigitMap[c]

LowerChar(c) == IF c \in UpperSet THEN LowerMap[c] ELSE c
UpperChar(c) == IF c \in LowerSet THEN UpperMap[c] ELSE c

\* str.lower(), str.upper()
StrLower(s) == [ i \in 1..Len(s) |-> LowerChar(s[i]) ]
StrUpper(s) == [ i \in 1..Len(s) |-> UpperChar(s[i]) ]

\* str.isdigit(): non-empty and every character a digit
StrIsDigit(s) == Len(s) > 0 /\ \A i \in 1..Len(s) : IsDigitChar(s[i])

\* s[i:] for a 1-based i (the characters from position i on)
Suffix(s, i) == IF i > Len(s) THEN << >> ELSE SubSeq(s, i, Len(s))

\* str.lstrip(), str.rstrip(), str.strip() for the whitespace of the model
RECURSIVE LStrip(_)
LStrip(s) == IF s # << >> /\ IsSpaceChar(Head(s)) THEN LStrip(Tail(s)) ELSE s
RECURSIVE RStrip(_)
RStrip(s) == IF s # << >> /\ IsSpaceChar(s[Len(s)])
             THEN RStrip(SubSeq(s, 1, Len(s) - 1)) ELSE s
Strip(s) == RStrip(LStrip(s))

\* the leading run of non-whitespace characters of s
RECURSIVE TakeToken(_)
TakeToken(s) == IF s = << >> \/ IsSpaceChar(Head(s)) THEN << >>
                ELSE << Head(s) >> \o TakeToken(Tail(s))

\* str.split()[0] of a string that holds a non-whitespace character
FirstToken(s) == TakeToken(LStrip(s))

\* int(s) for a string of digits
RECURSIVE StrToInt(_)
StrToInt(s) == IF s = << >> THEN 0
               ELSE 10 * StrToInt(SubSeq(s, 1, Len(s) - 1)) + DigitVal(s[Len(s)])

\* str(n) for n >= 0
RECURSIVE IntToStr(_)
IntToStr(n) == IF n < 10 THEN << DigitSeq[n + 1] >>
               ELSE IntToStr(n \div 10) \o << DigitSeq[(n % 10) + 1] >>

\* f"{n:02d}": at least two digits, zero padded
Fmt02d(n) == IF n < 10 THEN << "0" >> \o IntToStr(n) ELSE IntToStr(n)

\* lexicographic order of two str by code point (Python's str <)
RECURSIVE StrLess(_, _)
StrLess(a, b) ==
    IF b = << >> THEN FALSE
    ELSE IF a = << >> THEN TRUE
    ELSE IF Head(a) = Head(b) THEN StrLess(Tail(a), Tail(b))
    ELSE Ord(Head(a)) < Ord(Head(b))

(***************************************************************************)
(* CBSD Patch Port rename.py: pure helpers                                 *)
(***************************************************************************)
None == << >>
Some(v) == << v >>

\* the words of r"\bPatch\s+Panel\b", lower-cased for re.IGNORECASE
PatchWord == << "p","a","t","c","h" >>
PanelWord == << "p","a","n","e","l" >>

\* w (lower case) occurs in s at position i, ignoring case
MatchesAt(s, i, w) ==
    /\ i >= 1
    /\ i + Len(w) - 1 <= Len(s)
    /\ StrLower(SubSeq(s, i, i + Len(w) - 1)) = w

\* \b between s[i-1] and s[i]
WordBoundary(s, i) ==
    (i > 1 /\ i - 1 <= Len(s) /\ IsWordChar(s[i - 1])) # (i <= Len(s) /\ IsWordChar(s[i]))

\* length of the run of whitespace of s that starts at position i
RECURSIVE SpaceRun(_, _)
SpaceRun(s, i) == IF i <= Len(s) /\ IsSpaceChar(s[i]) THEN 1 + SpaceRun(s, i + 1) ELSE 0

\* r"\bPatch\s+Panel\b" tried at position i: the position after "Panel", 0 on no match
PhraseEnd(s, i) ==
    IF WordBoundary(s, i) /\ MatchesAt(s, i, PatchWord)
    THEN LET j == i + Len(PatchWord)
             n == SpaceRun(s, j)
             e == j + n + Len(PanelWord)
         IN  IF n >= 1 /\ MatchesAt(s, j + n, PanelWord) /\ WordBoundary(s, e) THEN e ELSE 0
    ELSE 0

\* re.search(r"\bPatch\s+Panel\b", name, re.IGNORECASE) is not None
HasPhrase(s) == \E i \in 1..Len(s) : PhraseEnd(s, i) # 0

\* m.group(1) of re.search(r"\bPatch\s+Panel\b\s*(.+)$", s, re.IGNORECASE), None on no
\* match: the leftmost start whose phrase is followed by at least one character;
\* \s* is greedy and gives one character back when only whitespace follows.
SearchTail(s) ==
    LET starts == { i \in 1..Len(s) : PhraseEnd(s, i) # 0 /\ PhraseEnd(s, i) <= Len(s) }
    IN  IF starts = {} THEN None
        ELSE LET i == CHOOSE x \in starts : \A y \in starts : x <= y
                 e == PhraseEnd(s, i)
                 n == SpaceRun(s, e)
             IN  Some(IF e + n <= Len(s) THEN Suffix(s, e + n) ELSE Suffix(s, Len(s)))

\* as _extract_patch_panel_id, but the stripped tail is returned whole (no split())
ExtractWholeTail(device_name) ==
    IF device_name = << >> THEN None
    ELSE LET m == SearchTail(device_name)
         IN  IF m = None THEN None
             ELSE LET tail == Strip(m[1])
                  IN  IF tail = << >> THEN None
                      ELSE Some(tail)

_extract_patch_panel_id(device_name) ==
    IF device_name = << >> THEN None
    ELSE LET m == SearchTail(device_name)
         IN  IF m = None THEN None
             ELSE LET tail == Strip(m[1])
                  IN  IF tail = << >> THEN None
                      ELSE Some(FirstToken(tail))


\* re.split(r"(\d+)", s): the runs of non-digits and of digits in turn; the list starts
\* and ends with a (possibly empty) non-digit part
RECURSIVE LeadRun(_, _)
LeadRun(s, d) == IF s # << >> /\ IsDigitChar(Head(s)) = d
                 THEN << Head(s) >> \o LeadRun(Tail(s), d) ELSE << >>
RECURSIVE SplitRuns(_, _)
SplitRuns(s, d) ==
    LET r == LeadRun(s, d)
        rest == Suffix(s, Len(r) + 1)
    IN  IF ~d /\ rest = << >> THEN << r >>
        ELSE << r >> \o SplitRuns(rest, ~d)

\* one element of the key list: int(p) for a digit part, p.lower() otherwise
KeyPart(p) == IF StrIsDigit(p) THEN [isint |-> TRUE, n |-> StrToInt(p), s |-> << >>]
              ELSE [isint |-> FALSE, n |-> 0, s |-> StrLower(p)]

\* as _natural_sort_key, but digit runs are not converted: the key is the lowered text
NaturalKeyPlainText(text) ==
    << << [isint |-> FALSE, n |-> 0, s |-> StrLower(text)] >>, StrLower(text) >>

\* _natural_sort_key(text) for a str: (key, text.lower())
_natural_sort_key(text) ==
    LET parts == SplitRuns(text, FALSE)
    IN  << [ i \in 1..Len(parts) |-> KeyPart(parts[i]) ], StrLower(text) >>

PartLess(a, b) == IF a.isint /\ b.isint THEN a.n < b.n ELSE StrLess(a.s, b.s)

\* Python's list < list
RECURSIVE ListLess(_, _)
ListLess(a, b) ==
    IF b = << >> THEN FALSE
    ELSE IF a = << >> THEN TRUE
    ELSE IF Head(a) = Head(b) THEN ListLess(Tail(a), Tail(b))
    ELSE PartLess(Head(a), Head(b))

\* Python's tuple < tuple on two sort keys
SortKeyLess(k1, k2) == ListLess(k1[1], k2[1]) \/ (k1[1] = k2[1] /\ StrLess(k1[2], k2[2]))

\* the orders list.sort(key=...) can leave the objects ids in: every arrangement with
\* non-decreasing keys (objects with equal keys keep the order the query gave them)
SortedBy(ids, key) ==
    { q \in [1..Cardinality(ids) -> ids] :
        /\ \A i, j \in DOMAIN q : i # j => q[i] # q[j]
        /\ \A i, j \in DOMAIN q : i < j => ~SortKeyLess(key[q[j]], key[q[i]]) }

(***************************************************************************)
(* State                                                                   *)
(***************************************************************************)
VARIABLES
    x_name,     \* _extract_patch_panel_id: the device name under construction
    x_count,    \* number of pieces the name was built from
    x_result,   \* the value returned for x_name
    x_pc,       \* "build" | "done"
    dev,        \* Device records: id -> [name, inscope]
    fports,     \* FrontPort records: id -> [device, name, label]
    rports,     \* RearPort records: id -> [device, name, label]
    snap,       \* the store as it was when the running script's transaction began
    rn_in,      \* RenamePatchPanelPortsCBSD: data and commit of the run
    rn,         \* RenamePatchPanelPortsCBSD: locals of run() and its position
    bays,       \* ModuleBay records: id -> [device, name, label, position]
    by_snap,    \* the module bays as they were when the transaction began
    by_in,      \* FixModuleBayPositions: data and commit of the run
    by,         \* FixModuleBayPositions: locals of run() and its position
    lp_fports,  \* LabelPorts: FrontPort records: id -> [device, name, label, description, rear_port]
    lp_rports,  \* LabelPorts: RearPort records: id -> [device, name]
    lp_snap,    \* the ports as they were when the transaction began
    lp_in,      \* LabelPorts: data and commit of the run
    lp,         \* LabelPorts: locals of run() and its position
    mg_store,   \* ManagerPackGenerator: [tags, groups, perms, filters] of the object store
    mg_snap,    \* that store as it was when the transaction began
    mg_in,      \* ManagerPackGenerator: data and commit of the run
    mg,         \* ManagerPackGenerator: locals of run() and its position
    vm_store,   \* NewVM: [vms, ifaces, ips, disks] of the object store
    vm_snap,    \* that store as it was when the transaction began
    vm_in,      \* NewVM: data and commit of the run, and the settings of the installation
    vm          \* NewVM: locals of run() and its position

xvars == << x_name, x_count, x_result, x_pc >>
rnvars == << dev, fports, rports, snap, rn_in, rn >>
byvars == << bays, by_snap, by_in, by >>
lpvars == << lp_fports, lp_rports, lp_snap, lp_in, lp >>
mgvars == << mg_store, mg_snap, mg_in, mg >>
vmvars == << vm_store, vm_snap, vm_in, vm >>
vars == << xvars, rnvars, byvars, lpvars, mgvars, vmvars >>

\* what each script leaves alone: the state of the other scripts
XFrame == UNCHANGED << rnvars, byvars, lpvars, mgvars, vmvars >>
RnFrame == UNCHANGED << xvars, byvars, lpvars, mgvars, vmvars >>
ByFrame == UNCHANGED << xvars, rnvars, lpvars, mgvars, vmvars >>
LpFrame == UNCHANGED << xvars, rnvars, byvars, mgvars, vmvars >>
MgFrame == UNCHANGED << xvars, rnvars, byvars, lpvars, vmvars >>
VmFrame == UNCHANGED << xvars, rnvars, byvars, lpvars, mgvars >>

(***************************************************************************)
(* _extract_patch_panel_id applied to bounded device names                 *)
(***************************************************************************)
MaxPieces == 5

Example1 == << "I","D","F","-","A"," ","P","a","t","c","h"," ","P","a","n","e","l"," ",
               "P","P","-","0","1"," ","L","e","f","t" >>
Example2 == << "P","a","t","c","h"," ","P","a","n","e","l"," ","3" >>

NamePieces == { << "P","a","t","c","h" >>, << "P","A","N","E","L" >>, << " " >>,
                << "P","P","-","0","1" >>, << "3" >>, << "s" >> }

XInit ==
    /\ x_name = << >>
    /\ x_count = 0
    /\ x_result = None
    /\ x_pc = "build"

\* the caller supplies one of the documented example names
XExample ==
    /\ x_pc = "build"
    /\ x_count = 0
    /\ x_name' \in { Example1, Example2 }
    /\ x_count' = MaxPieces
    /\ UNCHANGED << x_result, x_pc >>
    /\ XFrame

\* the caller's device name grows by one piece
XAppend ==
    /\ x_pc = "build"
    /\ x_count < MaxPieces
    /\ \E p \in NamePieces : x_name' = x_name \o p
    /\ x_count' = x_count + 1
    /\ UNCHANGED << x_result, x_pc >>
    /\ XFrame

\* panel_id = _extract_patch_panel_id(name)
XExtract ==
    /\ x_pc = "build"
    /\ x_result' = _extract_patch_panel_id(x_name)
    /\ x_pc' = "done"
    /\ UNCHANGED << x_name, x_count >>
    /\ XFrame

XNext == XExample \/ XAppend \/ XExtract


(***************************************************************************)
(* The script host (extras.scripts.Script): run() executes inside one      *)
(* transaction, which is kept only when run() returns and commit is set;   *)
(* a dry run (commit=False) or an exception rolls it back.                 *)
(***************************************************************************)
\* a host that keeps the changes of every run that returns
HostEndKeeps(commit, returned, current, begun) == IF returned THEN current ELSE begun
HostEnd(commit, returned, current, begun) ==
    IF commit /\ returned THEN current ELSE begun

(***************************************************************************)
(* RenamePatchPanelPortsCBSD                                               *)
(***************************************************************************)
MaxRuns == 2

DeviceIds == { "d1", "d2", "d3" }
FrontIds == { "f1", "f2", "f3", "f4" }
RearIds == { "r1", "r2", "r3" }

\* current port names the runs start from, in no particular order
FrontNames == << << "2" >>, << "1","0" >>, << "1" >>, << "0","1" >>,
                 << "A","-","P","P","-","0","1","-","0","1" >>,
                 << "A","-","P","P","-","0","1","-","0","3" >> >>
RearNames == << << "2" >>, << "1" >>,
                << "A","-","P","P","-","0","1","-","0","1","-","R" >> >>
OldLabel == << "x" >>

Device2Names == { Example2,
                  << "P","a","t","c","h"," ","P","a","n","e","l" >>,
                  << "S","w","i","t","c","h" >> }

IdfInputs == { << " ","A" >>, << " " >> }

Store == [ fports |-> fports, rports |-> rports ]

\* f"{idf_label}-{panel_id}-{idx:02d}"
FrontName(idf_label, panel_id, idx) ==
    idf_label \o << "-" >> \o panel_id \o << "-" >> \o Fmt02d(idx)
\* a rear port named as a front port
RearNameNoSuffix(idf_label, panel_id, idx) == FrontName(idf_label, panel_id, idx)
\* f"{idf_label}-{panel_id}-{idx:02d}-R"
RearName(idf_label, panel_id, idx) ==
    FrontName(idf_label, panel_id, idx) \o << "-","R" >>

\* full_clean() of a port about to be saved under new_name: the name is unique among
\* the ports of its kind on its device
NameFree(ports, p, new_name) ==
    \A q \in DOMAIN ports :
        q # p /\ ports[q].device = ports[p].device => ports[q].name # new_name

\* _validated_save(obj) accepts the object
_validated_save(ports, p, new_name) == NameFree(ports, p, new_name)

\* a comparison that always asks for a save
FrontNeedsChangeAlways(name, label, new_name) == TRUE
\* needs_change of a front port, line 157
FrontNeedsChange(name, label, new_name) == name # new_name \/ label # new_name

\* as RearNeedsChange, but the label is compared with the name as for a front port
RearNeedsChangeAsFront(name, label, new_name, clear_rear_label) ==
    name # new_name \/ label # new_name

\* needs_change of a rear port, line 174
RearNeedsChange(name, label, new_name, clear_rear_label) ==
    name # new_name \/ (clear_rear_label /\ label # << >>)

\* every device, whatever its location, role and tenant
DevicesAll == DeviceIds
\* Device.objects.filter(location=..., role__name=..., tenant__name=...).order_by("name")
DevicesQs == { d \in DeviceIds : dev[d].inscope }
DeviceKey == [ d \in DevicesQs |-> << << >>, dev[d].name >> ]
DeviceOrders == SortedBy(DevicesQs, DeviceKey)

PortsOf(ports, d) == { p \in DOMAIN ports : ports[p].device = d }
\* key=lambda p: _natural_sort_key(p.name)
PortKey(ports, ids) == [ p \in ids |-> _natural_sort_key(ports[p].name) ]

RnIdle == [ pc |-> "idle", run |-> 0, prev |-> "none", last |-> "none", idf |-> << >>, devs |-> << >>,
            di |-> 0, panel |-> << >>, ports |-> << >>, pi |-> 0,
            touched |-> 0, skipped_no_phrase |-> 0, skipped_no_id |-> 0,
            skipped_no_ports |-> 0, saved |-> 0, already |-> 0 ]

RnInit ==
    /\ dev \in { [ d1 |-> [name |-> Example1, inscope |-> TRUE],
                   d2 |-> [name |-> n2, inscope |-> s2],
                   d3 |-> [name |-> Example2, inscope |-> FALSE] ] :
                 n2 \in Device2Names, s2 \in BOOLEAN }
    /\ \E a, b, c \in DOMAIN FrontNames, own \in BOOLEAN, holder \in { "d2", "d3" } :
          /\ a < b /\ b < c
          /\ fports = [ f1 |-> [device |-> "d1", name |-> FrontNames[a],
                                label |-> IF own THEN FrontNames[a] ELSE << >>],
                        f2 |-> [device |-> "d1", name |-> FrontNames[b],
                                label |-> IF own THEN FrontNames[b] ELSE << >>],
                        f3 |-> [device |-> "d1", name |-> FrontNames[c],
                                label |-> IF own THEN FrontNames[c] ELSE << >>],
                        f4 |-> [device |-> holder, name |-> FrontNames[1], label |-> << >>] ]
          /\ \E a2, b2 \in DOMAIN RearNames, l \in { << >>, OldLabel } :
                /\ a2 < b2
                /\ rports = [ r1 |-> [device |-> "d1", name |-> RearNames[a2], label |-> l],
                              r2 |-> [device |-> "d1", name |-> RearNames[b2], label |-> << >>],
                              r3 |-> [device |-> holder, name |-> RearNames[1], label |-> l] ]
    /\ rn_in \in [ idf_label : IdfInputs, clear_rear_label : BOOLEAN, commit : BOOLEAN ]
    /\ snap = Store
    /\ rn = RnIdle

\* The host calls run(data, commit); lines 85-118.  A later run is given the same
\* location, idf_label and clear_rear_label, and either commit setting.
RnStart ==
    /\ rn.pc \in { "idle", "done", "aborted" }
    /\ rn.run < MaxRuns
    /\ \E c \in (IF rn.run = 0 THEN { rn_in.commit } ELSE BOOLEAN) :
          rn_in' = [ rn_in EXCEPT !.commit = c ]
    /\ snap' = Store
    /\ LET idf_label == Strip(rn_in.idf_label)
           base == [ RnIdle EXCEPT !.run = rn.run + 1, !.prev = rn.last, !.idf = idf_label ]
       IN  IF idf_label = << >>
           THEN rn' = [ base EXCEPT !.pc = "done", !.last = "blank" ]
           ELSE IF DevicesQs = {}
           THEN rn' = [ base EXCEPT !.pc = "done", !.last = "nodevices" ]
           ELSE \E devices \in DeviceOrders :
                    rn' = [ base EXCEPT !.pc = "device", !.devs = devices, !.di = 1 ]
    /\ UNCHANGED << dev, fports, rports >>
    /\ RnFrame

\* for device in devices: the checks of lines 121-149 and the front port list of 152-153
RnDevice ==
    /\ rn.pc = "device"
    /\ rn.di <= Len(rn.devs)
    /\ LET device == rn.devs[rn.di]
           name == dev[device].name
           panel_id == _extract_patch_panel_id(name)
       IN  IF ~HasPhrase(name)
           THEN rn' = [ rn EXCEPT !.skipped_no_phrase = @ + 1, !.di = @ + 1 ]
           ELSE IF panel_id = None
           THEN rn' = [ rn EXCEPT !.skipped_no_id = @ + 1, !.di = @ + 1 ]
           ELSE IF PortsOf(fports, device) = {} /\ PortsOf(rports, device) = {}
           THEN rn' = [ rn EXCEPT !.skipped_no_ports = @ + 1, !.di = @ + 1 ]
           ELSE \E front_ports \in SortedBy(PortsOf(fports, device),
                                                 PortKey(fports, PortsOf(fports, device))) :
                    rn' = [ rn EXCEPT !.touched = @ + 1, !.panel = panel_id[1],
                                      !.pc = "front", !.ports = front_ports, !.pi = 1 ]
    /\ UNCHANGED << dev, fports, rports, snap, rn_in >>
    /\ RnFrame

\* one turn of "for idx, fp in enumerate(front_ports, start=1)", lines 155-166; a
\* ValidationError of _validated_save leaves run() and the transaction is rolled back
RnFront ==
    /\ rn.pc = "front"
    /\ rn.pi <= Len(rn.ports)
    /\ LET fp == rn.ports[rn.pi]
           new_name == FrontName(rn.idf, rn.panel, rn.pi)
           needs_change == FrontNeedsChange(fports[fp].name, fports[fp].label, new_name)
       IN  IF ~needs_change
           THEN /\ rn' = [ rn EXCEPT !.already = @ + 1, !.pi = @ + 1 ]
                /\ UNCHANGED << fports, rports >>
           ELSE IF _validated_save(fports, fp, new_name)
           THEN /\ fports' = [ fports EXCEPT ![fp].name = new_name, ![fp].label = new_name ]
                /\ rn' = [ rn EXCEPT !.saved = @ + 1, !.pi = @ + 1 ]
                /\ UNCHANGED rports
           ELSE /\ fports' = snap.fports
                /\ rports' = snap.rports
                /\ rn' = [ rn EXCEPT !.pc = "aborted", !.last = "aborted" ]
    /\ UNCHANGED << dev, snap, rn_in >>
    /\ RnFrame

\* the rear port list of lines 169-170, taken when the front ports are done
RnRearList ==
    /\ rn.pc = "front"
    /\ rn.pi > Len(rn.ports)
    /\ \E rear_ports \in SortedBy(PortsOf(rports, rn.devs[rn.di]),
                                    PortKey(rports, PortsOf(rports, rn.devs[rn.di]))) :
          rn' = [ rn EXCEPT !.pc = "rear", !.ports = rear_ports, !.pi = 1 ]
    /\ UNCHANGED << dev, fports, rports, snap, rn_in >>
    /\ RnFrame

\* one turn of "for idx, rp in enumerate(rear_ports, start=1)", lines 172-184
RnRear ==
    /\ rn.pc = "rear"
    /\ rn.pi <= Len(rn.ports)
    /\ LET rp == rn.ports[rn.pi]
           new_name == RearName(rn.idf, rn.panel, rn.pi)
           new_label == IF rn_in.clear_rear_label THEN << >> ELSE rports[rp].label
           needs_change == RearNeedsChange(rports[rp].name, rports[rp].label, new_name,
                                           rn_in.clear_rear_label)
       IN  IF ~needs_change
           THEN /\ rn' = [ rn EXCEPT !.already = @ + 1, !.pi = @ + 1 ]
                /\ UNCHANGED << fports, rports >>
           ELSE IF _validated_save(rports, rp, new_name)
           THEN /\ rports' = [ rports EXCEPT ![rp].name = new_name, ![rp].label = new_label ]
                /\ rn' = [ rn EXCEPT !.saved = @ + 1, !.pi = @ + 1 ]
                /\ UNCHANGED fports
           ELSE /\ fports' = snap.fports
                /\ rports' = snap.rports
                /\ rn' = [ rn EXCEPT !.pc = "aborted", !.last = "aborted" ]
    /\ UNCHANGED << dev, snap, rn_in >>
    /\ RnFrame

\* the rear ports of the device are done: on to the next device
RnNextDevice ==
    /\ rn.pc = "rear"
    /\ rn.pi > Len(rn.ports)
    /\ rn' = [ rn EXCEPT !.pc = "device", !.di = @ + 1, !.ports = << >>, !.pi = 0 ]
    /\ UNCHANGED << dev, fports, rports, snap, rn_in >>
    /\ RnFrame

\* lines 186-194: the dry-run warning, the summary, and the host ending the transaction
RnFinish ==
    /\ rn.pc = "device"
    /\ rn.di > Len(rn.devs)
    /\ LET kept == HostEnd(rn_in.commit, TRUE, Store, snap)
       IN  /\ fports' = kept.fports
           /\ rports' = kept.rports
    /\ rn' = [ rn EXCEPT !.pc = "done",
                         !.last = IF rn_in.commit THEN "committed" ELSE "dryrun" ]
    /\ UNCHANGED << dev, snap, rn_in >>
    /\ RnFrame

RnNext == RnStart \/ RnDevice \/ RnFront \/ RnRearList \/ RnRear \/ RnNextDevice \/ RnFinish



(***************************************************************************)
(* FixModuleBayPositions                                                   *)
(***************************************************************************)
BayIds == { "b1", "b2" }
\* the order the bay query yields the bays in
BayOrder == << "b1", "b2" >>

BayNames == { << "J" >>, << "I" >>, << "0","7" >>, << " ","j"," " >> }
BayLabels == { << >>, << "5" >>, << "B" >> }
\* position: NULL (None), the empty string, or a value already set
BayPositions == { None, Some(<< >>), Some(<< "4" >>) }

\* as letter_order, but the letter I is not skipped
LetterOrderWithI == UpperSeq

\* letter_order, lines 32-33: the alphabet without I
letter_order == << "A","B","C","D","E","F","G","H","J","K","L","M","N","O","P","Q",
                   "R","S","T","U","V","W","X","Y","Z" >>

\* name.upper() in letter_map (line 34: letter -> index + 1)
InLetterMap(s) == Len(s) = 1 /\ s[1] \in Range(letter_order)
letter_map(s) == CHOOSE i \in DOMAIN letter_order : letter_order[i] = s[1]

\* a derivation that reads the label before the name
DerivedPosLabelFirst(bay_name, bay_label) ==
    LET name == Strip(bay_name)
        label == Strip(bay_label)
    IN  IF StrIsDigit(label) THEN Some(StrToInt(label))
        ELSE IF StrIsDigit(name) THEN Some(StrToInt(name))
        ELSE IF InLetterMap(StrUpper(label)) THEN Some(letter_map(StrUpper(label)))
        ELSE IF InLetterMap(StrUpper(name)) THEN Some(letter_map(StrUpper(name)))
        ELSE None
\* derived_pos of lines 67-88 for a bay's name and label, None when nothing applies
DerivedPos(bay_name, bay_label) ==
    LET name == Strip(bay_name)
        label == Strip(bay_label)
    IN  IF StrIsDigit(name) THEN Some(StrToInt(name))
        ELSE IF StrIsDigit(label) THEN Some(StrToInt(label))
        ELSE IF InLetterMap(StrUpper(name)) THEN Some(letter_map(StrUpper(name)))
        ELSE IF InLetterMap(StrUpper(label)) THEN Some(letter_map(StrUpper(label)))
        ELSE None

\* a check that takes every position for blank
HasPositionNever(pos) == FALSE
\* current_pos not in (None, "")
HasPosition(pos) == pos # None /\ pos # Some(<< >>)

\* ModuleBay.objects.filter(device__in=device_qs), narrowed by only_missing (lines 37-54)
BayQs(selected_devices, only_missing) ==
    { b \in BayIds :
        /\ (selected_devices = {} \/ bays[b].device \in selected_devices)
        /\ (only_missing => ~HasPosition(bays[b].position)) }

SeqOfSet(order, set) == SelectSeq(order, LAMBDA b : b \in set)

\* as CountSkipped, but the counter is left alone
CountSkippedForgotten(l) == [ l EXCEPT !.i = @ + 1 ]

\* skipped += 1; continue (lines 64-65)
CountSkipped(l) == [ l EXCEPT !.skipped = @ + 1, !.i = @ + 1 ]
\* warned += 1; continue (lines 91-96)
CountWarned(l) == [ l EXCEPT !.warned = @ + 1, !.i = @ + 1 ]
\* changed += 1 (line 102)
CountChanged(l) == [ l EXCEPT !.changed = @ + 1, !.i = @ + 1 ]

ByIdle == [ pc |-> "idle", run |-> 0, prev |-> "none", last |-> "none", qs |-> << >>,
            i |-> 0, total |-> 0, changed |-> 0, skipped |-> 0, warned |-> 0 ]

ByInit ==
    /\ bays \in { [ b1 |-> [device |-> "d1", name |-> n1, label |-> l1, position |-> p1],
                    b2 |-> [device |-> "d2", name |-> n2, label |-> l2, position |-> p2] ] :
                  n1 \in BayNames, l1 \in BayLabels, p1 \in BayPositions,
                  n2 \in BayNames, l2 \in BayLabels, p2 \in BayPositions }
    /\ by_in \in [ devices : { {}, { "d1" } }, only_missing : BOOLEAN, commit : BOOLEAN ]
    /\ by_snap = bays
    /\ by = ByIdle

\* The host calls run(data, commit); lines 28-57.  A later run is given the same
\* devices and only_missing, and either commit setting.
ByStart ==
    /\ by.pc \in { "idle", "done", "aborted" }
    /\ by.run < MaxRuns
    /\ \E c \in (IF by.run = 0 THEN { by_in.commit } ELSE BOOLEAN) :
          by_in' = [ by_in EXCEPT !.commit = c ]
    /\ by_snap' = bays
    /\ LET bay_qs == SeqOfSet(BayOrder, BayQs(by_in.devices, by_in.only_missing))
       IN  by' = [ ByIdle EXCEPT !.pc = "loop", !.run = by.run + 1, !.prev = by.last,
                                 !.last = by.last, !.qs = bay_qs, !.i = 1,
                                 !.total = Len(bay_qs) ]
    /\ UNCHANGED bays
    /\ ByFrame

\* one turn of "for bay in bay_qs", lines 59-106; bay.save() may raise, which leaves
\* run() and the transaction is rolled back
ByBay ==
    /\ by.pc = "loop"
    /\ by.i <= Len(by.qs)
    /\ LET bay == by.qs[by.i]
           derived_pos == DerivedPos(bays[bay].name, bays[bay].label)
       IN  IF HasPosition(bays[bay].position)
           THEN /\ by' = CountSkipped(by)
                /\ UNCHANGED bays
           ELSE IF derived_pos = None
           THEN /\ by' = CountWarned(by)
                /\ UNCHANGED bays
           ELSE \/ /\ bays' = [ bays EXCEPT ![bay].position = Some(IntToStr(derived_pos[1])) ]
                   /\ by' = CountChanged(by)
                \/ /\ bays' = by_snap
                   /\ by' = [ by EXCEPT !.pc = "aborted", !.last = "aborted" ]
    /\ UNCHANGED << by_snap, by_in >>
    /\ ByFrame

\* lines 108-119: the summary, and the host ending the transaction
ByFinish ==
    /\ by.pc = "loop"
    /\ by.i > Len(by.qs)
    /\ bays' = HostEnd(by_in.commit, TRUE, bays, by_snap)
    /\ by' = [ by EXCEPT !.pc = "done",
                         !.last = IF by_in.commit THEN "committed" ELSE "dryrun" ]
    /\ UNCHANGED << by_snap, by_in >>
    /\ ByFrame

ByNext == ByStart \/ ByBay \/ ByFinish


(***************************************************************************)
(* LabelPorts (relabel_frontports_suffix.py)                               *)
(***************************************************************************)
MaxRows == 3

\* csv.reader on one line of text without quotes: the cells between the commas; an
\* empty line is the row []
RECURSIVE SplitComma(_)
SplitComma(line) ==
    LET cell == CHOOSE c \in { SubSeq(line, 1, n) : n \in 0..Len(line) } :
                    /\ \A q \in 1..Len(c) : c[q] # ","
                    /\ (Len(c) = Len(line) \/ line[Len(c) + 1] = ",")
    IN  IF Len(cell) = Len(line) THEN << cell >>
        ELSE << cell >> \o SplitComma(Suffix(line, Len(cell) + 2))
CsvRow(line) == IF line = << >> THEN << >> ELSE SplitComma(line)

\* raw.strip() on the text given as its lines: blank lines at both ends go, and the
\* whitespace before the first and after the last character
RECURSIVE DropBlankHead(_)
DropBlankHead(lines) ==
    IF lines # << >> /\ Strip(Head(lines)) = << >> THEN DropBlankHead(Tail(lines)) ELSE lines
RECURSIVE DropBlankLast(_)
DropBlankLast(lines) ==
    IF lines # << >> /\ Strip(lines[Len(lines)]) = << >>
    THEN DropBlankLast(SubSeq(lines, 1, Len(lines) - 1)) ELSE lines
StripText(lines) ==
    LET t == DropBlankLast(DropBlankHead(lines))
    IN  IF t = << >> THEN << >>
        ELSE IF Len(t) = 1 THEN << Strip(t[1]) >>
        ELSE << LStrip(t[1]) >> \o SubSeq(t, 2, Len(t) - 1) \o << RStrip(t[Len(t)]) >>

\* the rows csv.reader yields for the text
CsvRows(lines) == [ k \in 1..Len(lines) |-> CsvRow(lines[k]) ]

DeviceNameHeader == << "d","e","v","i","c","e","n","a","m","e" >>
SW1 == << "S","W","1" >>

\* the lines a CSV text of the model is made of
CsvLines ==
    { << "S","W","1", ",", "1", ",", "A","1", ",", "d" >>,
      << "S","W","1", ",", "2", ",", "1", ",", "d" >>,
      << "S","W","1", ",", " ","A","1", ",", "2", ",", "d" >>,
      << "S","W","9", ",", "1", ",", "A","1", ",", "d" >>,
      << "S","W","1", ",", "A","1", ",", "A","1", ",", "d" >>,
      << "S","W","1", ",", "9", ",", "A","1", ",", "d" >>,
      << "D","e","v","i","c","e","N","a","m","e", ",", "a", ",", "b", ",", "c" >>,
      << "S","W","1", ",", "1" >>,
      << " " >>,
      << >> }

LpTexts == UNION { [1..n -> CsvLines] : n \in 1..MaxRows }

\* Device.objects.get(name=device_name): the devices of the model, by name
LpDevices == { SW1 }

\* a lookup that finds the first port whatever the name
LpFrontGetFirst(device, name) == Some("p1")
\* FrontPort.objects.get(device=device, name=front_port_name): the port, None if absent
LpFrontGet(device, name) ==
    LET found == { p \in DOMAIN lp_fports :
                     lp_fports[p].device = device /\ lp_fports[p].name = name }
    IN  IF found = {} THEN None ELSE Some(CHOOSE p \in found : TRUE)

\* the position of a run and its counters: updated and skipped are the script's, the
\* others count the saves, the caught errors and the rows that saved a port
LpIdle == [ pc |-> "idle", run |-> 0, prev |-> "none", last |-> "none", rows |-> << >>,
            i |-> 0, updated |-> 0, skipped |-> 0, fsaved |-> 0, rsaved |-> 0,
            ferrors |-> 0, rerrors |-> 0, wrote |-> 0 ]

LpInit ==
    /\ lp_fports \in { [ p1 |-> [device |-> SW1, name |-> << "1" >>, label |-> l1,
                                 description |-> d1, rear_port |-> Some("q1")],
                         p2 |-> [device |-> SW1, name |-> << "2" >>, label |-> << >>,
                                 description |-> << >>, rear_port |-> r2] ] :
                       l1 \in { << >>, << "A","1" >> }, d1 \in { << >>, << "d" >> },
                       r2 \in { None, Some("q2") } }
    /\ lp_rports \in { [ q1 |-> [device |-> SW1, name |-> n1],
                         q2 |-> [device |-> SW1, name |-> << "A","1","-","R" >>] ] :
                       n1 \in { << "1","-","R" >>, << "R","1" >> } }
    /\ lp_in \in [ csvdata : LpTexts, commit : BOOLEAN ]
    /\ lp_snap = [ fports |-> lp_fports, rports |-> lp_rports ]
    /\ lp = LpIdle

\* The host calls run(data, commit); lines 19-39.  A later run is given the same
\* CSV text and either commit setting.
LpStart ==
    /\ lp.pc \in { "idle", "done" }
    /\ lp.run < MaxRuns
    /\ \E c \in (IF lp.run = 0 THEN { lp_in.commit } ELSE BOOLEAN) :
          lp_in' = [ lp_in EXCEPT !.commit = c ]
    /\ lp_snap' = [ fports |-> lp_fports, rports |-> lp_rports ]
    /\ LET raw == StripText(lp_in.csvdata)
           base == [ LpIdle EXCEPT !.run = lp.run + 1, !.prev = lp.last, !.last = lp.last ]
       IN  IF raw = << >>
           THEN lp' = [ base EXCEPT !.pc = "done", !.last = "nodata" ]
           ELSE lp' = [ base EXCEPT !.pc = "rows", !.rows = CsvRows(raw), !.i = 1 ]
    /\ UNCHANGED << lp_fports, lp_rports >>
    /\ LpFrame

\* a row that is passed over without being counted
LpSkipUncounted(l) == [ l EXCEPT !.i = @ + 1 ]
\* a row that is skipped and counted: skipped += 1; continue
LpSkip(l) == [ l EXCEPT !.skipped = @ + 1, !.i = @ + 1 ]

\* one turn of "for line_num, row in enumerate(reader, start=1)", lines 40-128
LpRow ==
    /\ lp.pc = "rows"
    /\ lp.i <= Len(lp.rows)
    /\ LET row == lp.rows[lp.i]
       IN  IF row = << >> \/ \A k \in DOMAIN row : Strip(row[k]) = << >>
           THEN lp' = LpSkip(lp) /\ UNCHANGED << lp_fports, lp_rports >>
           ELSE IF Len(row) < 4 \/ StrLower(Strip(row[1])) = DeviceNameHeader
           THEN lp' = LpSkip(lp) /\ UNCHANGED << lp_fports, lp_rports >>
           ELSE
           LET device_name == Strip(row[1])
               front_port_name == Strip(row[2])
               new_name == Strip(row[3])
               new_desc == Strip(row[4])
               got == LpFrontGet(device_name, front_port_name)
           IN  IF device_name \notin LpDevices \/ got = None
               THEN lp' = LpSkip(lp) /\ UNCHANGED << lp_fports, lp_rports >>
               ELSE
               LET fp == got[1]
                   changed == \/ lp_fports[fp].name # new_name
                              \/ lp_fports[fp].label # new_name
                              \/ lp_fports[fp].description # new_desc
                   rear_port == lp_fports[fp].rear_port
                   rear_name == new_name \o << "-","R" >>
                   rear_differs == rear_port # None /\ lp_rports[rear_port[1]].name # rear_name
                   rear_ok == rear_differs /\ NameFree(lp_rports, rear_port[1], rear_name)
                   rports_after == IF rear_ok
                                   THEN [ lp_rports EXCEPT ![rear_port[1]].name = rear_name ]
                                   ELSE lp_rports
                   after_rear(l, front_saved) ==
                                      [ l EXCEPT
                                        !.wrote = IF front_saved \/ rear_ok THEN @ + 1 ELSE @,
                                        !.rsaved = IF rear_ok THEN @ + 1 ELSE @,
                                        !.rerrors = IF rear_differs /\ ~rear_ok THEN @ + 1 ELSE @,
                                        !.i = @ + 1 ]
               IN  IF changed /\ ~NameFree(lp_fports, fp, new_name)
                   THEN /\ lp' = [ LpSkip(lp) EXCEPT !.ferrors = @ + 1 ]
                        /\ UNCHANGED << lp_fports, lp_rports >>
                   ELSE IF changed
                   THEN /\ lp_fports' = [ lp_fports EXCEPT ![fp].name = new_name,
                                                           ![fp].label = new_name,
                                                           ![fp].description = new_desc ]
                        /\ lp_rports' = rports_after
                        /\ lp' = after_rear([ lp EXCEPT !.updated = @ + 1, !.fsaved = @ + 1 ], TRUE)
                   ELSE /\ lp_rports' = rports_after
                        /\ lp' = after_rear(lp, FALSE)
                        /\ UNCHANGED lp_fports
    /\ UNCHANGED << lp_snap, lp_in >>
    /\ LpFrame

\* line 130: the summary, and the host ending the transaction
LpFinish ==
    /\ lp.pc = "rows"
    /\ lp.i > Len(lp.rows)
    /\ LET kept == HostEnd(lp_in.commit, TRUE,
                           [ fports |-> lp_fports, rports |-> lp_rports ], lp_snap)
       IN  /\ lp_fports' = kept.fports
           /\ lp_rports' = kept.rports
    /\ lp' = [ lp EXCEPT !.pc = "done",
                         !.last = IF lp_in.commit THEN "committed" ELSE "dryrun" ]
    /\ UNCHANGED << lp_snap, lp_in >>
    /\ LpFrame

LpNext == LpStart \/ LpRow \/ LpFinish


(***************************************************************************)
(* ManagerPackGenerator (Manager Permissions.py)                           *)
(***************************************************************************)
MaxLines == 2

\* django.utils.text.slugify on letters, digits, spaces and hyphens: lower case, every
\* run of spaces and hyphens becomes one hyphen, hyphens at both ends are dropped
RECURSIVE SlugRuns(_, _)
SlugRuns(s, inrun) ==
    IF s = << >> THEN << >>
    ELSE IF Head(s) = " " \/ Head(s) = "-"
         THEN (IF inrun THEN << >> ELSE << "-" >>) \o SlugRuns(Tail(s), TRUE)
         ELSE << LowerChar(Head(s)) >> \o SlugRuns(Tail(s), FALSE)
slugify(s) ==
    LET t == SlugRuns(s, FALSE)
        a == IF t # << >> /\ t[1] = "-" THEN Tail(t) ELSE t
    IN  IF a # << >> /\ a[Len(a)] = "-" THEN SubSeq(a, 1, Len(a) - 1) ELSE a

\* ln.split(",", 1): the text before the first comma and the text after it
BeforeComma(ln) ==
    SubSeq(ln, 1, (CHOOSE k \in 1..Len(ln) : ln[k] = "," /\ \A q \in 1..(k - 1) : ln[q] # ",") - 1)
AfterComma(ln) ==
    Suffix(ln, (CHOOSE k \in 1..Len(ln) : ln[k] = "," /\ \A q \in 1..(k - 1) : ln[q] # ",") + 1)
HasComma(ln) == \E k \in 1..Len(ln) : ln[k] = ","

CtDevice == "dcim.device"
CtIface == "dcim.interface"
CtPrefix == "ipam.prefix"
CtIpaddr == "ipam.ipaddress"

\* " \u2013 ": the en dash (U+2013) of the f-strings is the one element "u2013"
Dash == << " ", "u2013", " " >>
GroupName(label) == << "M","a","n","a","g","e","r" >> \o Dash \o label
PermName(label, kind) == label \o Dash \o kind
KindDevices == << "D","e","v","i","c","e","s" >>
KindInterfaces == << "I","n","t","e","r","f","a","c","e","s" >>
KindPrefixes == << "P","r","e","f","i","x","e","s" >>
KindIpAddresses == << "I","P"," ","A","d","d","r","e","s","s","e","s" >>
FilterName(label) == << "M","y"," " >> \o label \o << " ","D","e","v","i","c","e","s" >>
FilterSlug(label) == << "m","y","-" >> \o slugify(label) \o << "-","d","e","v","i","c","e","s" >>

\* the places of the rows of a table whose field f equals v
RowsWith(table, f, v) == { k \in DOMAIN table : table[k][f] = v }

\* a tag that is created whatever create_missing says
EnsureTagAlways(tags, slug, create_missing) == tags \cup { slug }
\* _ensure_tag, lines 44-54: the tags afterwards (unchanged when the tag exists or may
\* not be created)
_ensure_tag(tags, slug, create_missing) ==
    IF slug \in tags THEN tags
    ELSE IF ~create_missing THEN tags
    ELSE tags \cup { slug }

\* _ensure_group, lines 56-62: Group.objects.get_or_create(name=name)
_ensure_group(groups, name) == groups \cup { name }

\* as _ensure_permission, but the permission is always created (objects.create)
EnsurePermissionCreate(perms, name, group, object_types, actions, constraints) ==
    Append(perms, [ name |-> name, enabled |-> TRUE, actions |-> actions,
                    constraints |-> constraints, groups |-> { group },
                    object_types |-> object_types ])

\* as _ensure_permission, but the group is added to the groups the permission has
EnsurePermissionAddGroup(perms, name, group, object_types, actions, constraints) ==
    LET found == RowsWith(perms, "name", name)
        desired == [ name |-> name, enabled |-> TRUE, actions |-> actions,
                     constraints |-> constraints, groups |-> { group },
                     object_types |-> object_types ]
    IN  IF found = {} THEN Append(perms, desired)
        ELSE [ perms EXCEPT ![CHOOSE k \in found : TRUE] =
                   [ desired EXCEPT !.groups = @ \cup perms[CHOOSE k \in found : TRUE].groups ] ]

\* _ensure_permission, lines 64-86: get_or_create by name, then every field is set and
\* saved, and the groups and object types are set
_ensure_permission(perms, name, group, object_types, actions, constraints) ==
    LET found == RowsWith(perms, "name", name)
        desired == [ name |-> name, enabled |-> TRUE, actions |-> actions,
                     constraints |-> constraints, groups |-> { group },
                     object_types |-> object_types ]
    IN  IF found = {} THEN Append(perms, desired)
        ELSE [ perms EXCEPT ![CHOOSE k \in found : TRUE] = desired ]

\* _ensure_saved_filter, lines 88-113: get_or_create by slug, then every field is set
\* and saved, and the object types are set
_ensure_saved_filter(filters, label, tag_slug, ct_device, shared) ==
    LET sf_slug == FilterSlug(label)
        found == RowsWith(filters, "slug", sf_slug)
        desired == [ slug |-> sf_slug, name |-> FilterName(label), enabled |-> TRUE,
                     shared |-> shared, parameters |-> { << "tag", tag_slug >> },
                     object_types |-> { ct_device } ]
    IN  IF found = {} THEN Append(filters, desired)
        ELSE [ filters EXCEPT ![CHOOSE k \in found : TRUE] = desired ]

\* the store after the pack of one line "Label,tag-slug" is ensured (lines 148-189)
EnsurePack(st, label, tag_slug, create_tags, shared_filters) ==
    LET group == GroupName(label)
        p1 == _ensure_permission(st.perms, PermName(label, KindDevices), group,
                  { CtDevice }, << "view", "change" >>, { << "tags__slug", tag_slug >> })
        p2 == _ensure_permission(p1, PermName(label, KindInterfaces), group,
                  { CtIface }, << "view", "change" >>, { << "device__tags__slug", tag_slug >> })
        p3 == _ensure_permission(p2, PermName(label, KindPrefixes), group,
                  { CtPrefix }, << "view" >>, {})
        p4 == _ensure_permission(p3, PermName(label, KindIpAddresses), group,
                  { CtIpaddr }, << "view", "add", "change" >>, {})
    IN  [ tags |-> _ensure_tag(st.tags, tag_slug, create_tags),
          groups |-> _ensure_group(st.groups, group),
          perms |-> p4,
          filters |-> _ensure_saved_filter(st.filters, label, tag_slug, CtDevice,
                                           shared_filters) ]

\* the definition lines of the model
MgLineTexts ==
    { << "X", ",", "a" >>, << " ", "x", " ", ",", " ", "b" >>, << "X", ",", "b" >>,
      << "Y" >>, << ",", "a" >>, << " " >> }
MgTexts == UNION { [1..n -> MgLineTexts] : n \in 1..MaxLines }

\* records left by earlier work: a permission and a saved filter the pack of label X
\* will find, with other values
StalePerm == [ name |-> PermName(<< "X" >>, KindDevices), enabled |-> FALSE,
               actions |-> << "view" >>, constraints |-> {},
               groups |-> { << "O","p","s" >> }, object_types |-> { "dcim.site" } ]
StaleFilter == [ slug |-> FilterSlug(<< "X" >>), name |-> << "O","l","d" >>,
                 enabled |-> FALSE, shared |-> FALSE,
                 parameters |-> { << "tag", << "z" >> >> }, object_types |-> {} ]

MgIdle == [ pc |-> "idle", run |-> 0, prev |-> "none", last |-> "none", lines |-> << >>,
            i |-> 0, packs |-> 0, skipped |-> 0, perm_saves |-> 0, filter_saves |-> 0,
            created |-> 0 ]

MgInit ==
    /\ mg_store \in { [ tags |-> t, groups |-> {}, perms |-> pf[1], filters |-> pf[2] ] :
                      t \in { {}, { << "a" >> } },
                      pf \in { << << >>, << >> >>, << << StalePerm >>, << StaleFilter >> >> } }
    /\ mg_in \in [ definitions : MgTexts, create_missing_tags : BOOLEAN,
                   shared_saved_filters : BOOLEAN, commit : BOOLEAN ]
    /\ mg_snap = mg_store
    /\ mg = MgIdle

\* The host calls run(data, commit); lines 115-127.  A later run is given the same
\* data and either commit setting.
MgStart ==
    /\ mg.pc \in { "idle", "done" }
    /\ mg.run < MaxRuns
    /\ \E c \in (IF mg.run = 0 THEN { mg_in.commit } ELSE BOOLEAN) :
          mg_in' = [ mg_in EXCEPT !.commit = c ]
    /\ mg_snap' = mg_store
    /\ LET stripped == [ k \in DOMAIN mg_in.definitions |-> Strip(mg_in.definitions[k]) ]
           lines == SelectSeq(stripped, LAMBDA ln : ln # << >>)
           base == [ MgIdle EXCEPT !.run = mg.run + 1, !.prev = mg.last, !.last = mg.last ]
       IN  IF lines = << >>
           THEN mg' = [ base EXCEPT !.pc = "done", !.last = "nodefinitions" ]
           ELSE mg' = [ base EXCEPT !.pc = "lines", !.lines = lines, !.i = 1 ]
    /\ UNCHANGED mg_store
    /\ MgFrame

\* one turn of "for ln in lines", lines 129-189
MgLine ==
    /\ mg.pc = "lines"
    /\ mg.i <= Len(mg.lines)
    /\ LET ln == mg.lines[mg.i]
           skip == [ mg EXCEPT !.skipped = @ + 1, !.i = @ + 1 ]
       IN  IF ~HasComma(ln)
           THEN mg' = skip /\ UNCHANGED mg_store
           ELSE
           LET label == Strip(BeforeComma(ln))
               tag_slug == Strip(AfterComma(ln))
               after == EnsurePack(mg_store, label, tag_slug, mg_in.create_missing_tags,
                                   mg_in.shared_saved_filters)
           IN  IF label = << >> \/ tag_slug = << >>
               THEN mg' = skip /\ UNCHANGED mg_store
               ELSE IF tag_slug \notin _ensure_tag(mg_store.tags, tag_slug,
                                                   mg_in.create_missing_tags)
               THEN mg' = skip /\ UNCHANGED mg_store
               ELSE /\ mg_store' = after
                    /\ mg' = [ mg EXCEPT
                                 !.packs = @ + 1, !.i = @ + 1,
                                 !.perm_saves = @ + 4, !.filter_saves = @ + 1,
                                 !.created = @ + (Len(after.perms) - Len(mg_store.perms))
                                               + (Len(after.filters) - Len(mg_store.filters)) ]
    /\ UNCHANGED << mg_snap, mg_in >>
    /\ MgFrame

\* line 191: the closing message, and the host ending the transaction
MgFinish ==
    /\ mg.pc = "lines"
    /\ mg.i > Len(mg.lines)
    /\ mg_store' = HostEnd(mg_in.commit, TRUE, mg_store, mg_snap)
    /\ mg' = [ mg EXCEPT !.pc = "done",
                         !.last = IF mg_in.commit THEN "committed" ELSE "dryrun" ]
    /\ UNCHANGED << mg_snap, mg_in >>
    /\ MgFrame

MgNext == MgStart \/ MgLine \/ MgFinish


(***************************************************************************)
(* NewVM (create_vm 2.1.py)                                                *)
(***************************************************************************)
\* addresses are integers; the selectable range spans FirstAddr..LastAddr
FirstAddr == 10
LastAddr == 12
RangeMask == 24

VmName == << "v", "m", "1" >>
Eth0 == << "e", "t", "h", "0" >>
Eth1 == << "e", "t", "h", "1" >>
DiskOS == << "O", "S" >>
DnsName == << "h", "o", "s", "t" >>

\* an IPAddress record of the store
IpRec(ip, mask, vrf) == [ ip |-> ip, mask |-> mask, vrf |-> vrf ]

\* prefix.get_available_ips() read at lines 291-297: the lowest address of the prefix
\* that no IPAddress of the prefix's VRF has, whatever its mask; None when all are taken
allocate_next_ipv4_from_prefix(ips, prefix) ==
    LET free == { a \in prefix.first..prefix.last :
                    ~\E r \in ips : r.ip = a /\ r.vrf = prefix.vrf }
    IN  IF free = {} THEN None
        ELSE Some([ ip |-> CHOOSE a \in free : \A b \in free : a <= b,
                    mask |-> prefix.prefixlen ])

\* the scan of lines 322-328 from ip on: the first candidate "ip/mask" with no
\* IPAddress of that address (mask included) in the selected VRF
RECURSIVE RangeScan(_, _, _, _, _)
RangeScan(ips, ip, end, mask, selected_vrf) ==
    IF ip > end THEN None
    ELSE IF ~(IpRec(ip, mask, selected_vrf) \in ips)
         THEN Some([ ip |-> ip, mask |-> mask ])
         ELSE RangeScan(ips, ip + 1, end, mask, selected_vrf)

\* allocate_next_ipv4_from_range, lines 315-332; None stands for the RuntimeError
allocate_next_ipv4_from_range(ips, iprange, selected_vrf) ==
    RangeScan(ips, iprange.start, iprange.end, iprange.mask, selected_vrf)

\* a run that saves whatever commit says
SavesAlways(commit) == TRUE
\* the "if commit:" guards of lines 229, 239, 275, 344 and 389
SavesWhen(commit) == commit

\* create_interface, lines 262-281: the interfaces afterwards; "raised" when
\* full_clean() finds the name taken on the virtual machine
create_interface(ifaces, commit, name, vlan) ==
    IF name = << >> THEN [ ifaces |-> ifaces, raised |-> FALSE, made |-> FALSE ]
    ELSE IF ~SavesWhen(commit) THEN [ ifaces |-> ifaces, raised |-> FALSE, made |-> TRUE ]
    ELSE IF \E f \in ifaces : f.vm = VmName /\ f.name = name
    THEN [ ifaces |-> ifaces, raised |-> TRUE, made |-> FALSE ]
    ELSE [ ifaces |-> ifaces \cup { [ vm |-> VmName, name |-> name, untagged_vlan |-> vlan ] },
           raised |-> FALSE, made |-> TRUE ]

\* create_disk, lines 377-394; count is what the count() of line 381 returned
create_disk(disks, commit, name, size_gb, count) ==
    IF size_gb = 0 THEN [ disks |-> disks, raised |-> FALSE, made |-> FALSE ]
    ELSE LET disk_name == IF name # << >> THEN name
                          ELSE << "d", "i", "s", "k", "-" >> \o IntToStr(count + 1)
         IN  IF ~SavesWhen(commit) THEN [ disks |-> disks, raised |-> FALSE, made |-> TRUE ]
             ELSE IF \E d \in disks : d.vm = VmName /\ d.name = disk_name
             THEN [ disks |-> disks, raised |-> TRUE, made |-> FALSE ]
             ELSE [ disks |-> disks \cup { [ vm |-> VmName, name |-> disk_name,
                                             size |-> size_gb * 1024 ] },
                    raised |-> FALSE, made |-> TRUE ]

ThePrefix == [ first |-> FirstAddr, last |-> FirstAddr + 1, prefixlen |-> RangeMask,
               vrf |-> None, vlan |-> None ]
TheRange(vlan) == [ start |-> FirstAddr, end |-> LastAddr, mask |-> RangeMask,
                    vrf |-> None, vlan |-> vlan ]

\* the allocation inputs of the model: source, prefix, range (None: not selected)
VmSources ==
    { [ allocation_source |-> "prefix", ipv4_prefix |-> None, ipv4_range |-> None ],
      [ allocation_source |-> "prefix", ipv4_prefix |-> Some(ThePrefix), ipv4_range |-> None ],
      [ allocation_source |-> "range", ipv4_prefix |-> None, ipv4_range |-> None ],
      [ allocation_source |-> "range", ipv4_prefix |-> None,
        ipv4_range |-> Some(TheRange(None)) ],
      [ allocation_source |-> "range", ipv4_prefix |-> None,
        ipv4_range |-> Some(TheRange(Some("vl1"))) ] }

\* the IPAddress tables of the model
VmIpTables ==
    { {},
      { IpRec(FirstAddr, RangeMask, None) },
      { IpRec(FirstAddr, 32, None), IpRec(FirstAddr + 1, RangeMask, Some("v1")) },
      { IpRec(a, RangeMask, None) : a \in FirstAddr..LastAddr } }

VmIdle == [ pc |-> "idle", run |-> 0, prev |-> "none", last |-> "none",
            primary_vlan |-> None, allocated_ipv4 |-> None, primary_iface |-> FALSE,
            vm_saved |-> FALSE, cf_dirty |-> FALSE, plans |-> 0, message |-> "none" ]

VmInit ==
    /\ \E ips \in VmIpTables, taken \in BOOLEAN :
          vm_store = [ vms |-> IF taken
                               THEN { [ name |-> VmName, primary_ip4 |-> None,
                                        tags |-> {}, custom_field_data |-> {} ] }
                               ELSE {},
                       ifaces |-> {}, ips |-> ips, disks |-> {} ]
    /\ \E src \in VmSources, vrf \in { None, Some("v1") },
          vlan \in { None, Some("vl1"), Some("vl2") }, nics \in { 0, 1, 3 },
          d1 \in { 0, 50 }, cf \in BOOLEAN, c \in BOOLEAN :
          vm_in = [ source |-> src, vrf |-> vrf, interface_vlan |-> vlan,
                    interface_name |-> Eth0, extra_nics |-> nics,
                    nic2_name |-> Eth1, nic3_name |-> Eth0,
                    disk1_name |-> << >>, disk1_size |-> d1,
                    disk2_name |-> DiskOS, disk2_size |-> 20,
                    dns_name |-> DnsName, cf_defined |-> cf, commit |-> c ]
    /\ vm_snap = vm_store
    /\ vm = VmIdle

\* a run that raises: the host rolls the transaction back
VmRaise(message) ==
    /\ vm' = [ vm EXCEPT !.pc = "raised", !.last = "raised", !.message = message ]
    /\ vm_store' = HostEnd(vm_in.commit, FALSE, vm_store, vm_snap)

\* The host calls run(data, commit); lines 157-212: the allocation object, the VRF and
\* the VLAN are checked.  A later run is given the same data and either commit setting.
VmCheck ==
    /\ vm.pc \in { "idle", "done", "raised" }
    /\ vm.run < MaxRuns
    /\ \E c \in (IF vm.run = 0 THEN { vm_in.commit } ELSE BOOLEAN) :
          /\ vm_in' = [ vm_in EXCEPT !.commit = c ]
          /\ vm_snap' = vm_store
          /\ LET src == vm_in.source
                 isp == src.allocation_source = "prefix"
                 obj == IF isp THEN src.ipv4_prefix ELSE src.ipv4_range
                 auto == IF vm_in.interface_vlan = None /\ obj # None
                         THEN obj[1].vlan ELSE vm_in.interface_vlan
                 base == [ VmIdle EXCEPT !.run = vm.run + 1, !.prev = vm.last,
                                         !.last = vm.last ]
                 raise(m) == /\ vm' = [ base EXCEPT !.pc = "raised", !.last = "raised",
                                                    !.message = m ]
                             /\ UNCHANGED vm_store
             IN  IF obj = None THEN raise("not selected")
                 ELSE IF obj[1].vrf # vm_in.vrf THEN raise("must match")
                 ELSE IF auto # None /\ obj[1].vlan # None /\ obj[1].vlan # auto
                 THEN raise("matching VLAN")
                 ELSE /\ vm' = [ base EXCEPT !.pc = "create", !.primary_vlan = auto,
                                   !.plans = IF auto # vm_in.interface_vlan THEN 1 ELSE 0 ]
                      /\ UNCHANGED vm_store
    /\ VmFrame

\* lines 217-257: the VirtualMachine, its tags and its custom fields
VmCreate ==
    /\ vm.pc = "create"
    /\ IF ~SavesWhen(vm_in.commit)
       THEN /\ vm' = [ vm EXCEPT !.pc = "nic", !.plans = @ + 1 ]
            /\ UNCHANGED vm_store
       ELSE IF \E v \in vm_store.vms : v.name = VmName
       THEN VmRaise("ValidationError")
       ELSE /\ vm_store' = [ vm_store EXCEPT !.vms = @ \cup
                  { [ name |-> VmName, primary_ip4 |-> None, tags |-> { "t" },
                      custom_field_data |-> IF vm_in.cf_defined
                                            THEN { << "dns_name", vm_in.dns_name >> }
                                            ELSE {} ] } ]
            /\ vm' = [ vm EXCEPT !.pc = "nic", !.vm_saved = TRUE,
                                 !.cf_dirty = ~vm_in.cf_defined,
                                 !.plans = @ + (IF vm_in.cf_defined THEN 2 ELSE 1) ]
    /\ UNCHANGED << vm_snap, vm_in >>
    /\ VmFrame

\* line 286: the primary interface
VmPrimaryNic ==
    /\ vm.pc = "nic"
    /\ LET r == create_interface(vm_store.ifaces, vm_in.commit, vm_in.interface_name,
                                 vm.primary_vlan)
       IN  IF r.raised THEN VmRaise("ValidationError")
           ELSE /\ vm_store' = [ vm_store EXCEPT !.ifaces = r.ifaces ]
                /\ vm' = [ vm EXCEPT !.pc = "alloc", !.primary_iface = r.made,
                                     !.plans = @ + 1 ]
    /\ UNCHANGED << vm_snap, vm_in >>
    /\ VmFrame

\* lines 334-339: the next free address of the prefix or of the range
VmAllocate ==
    /\ vm.pc = "alloc"
    /\ LET src == vm_in.source
           got == IF src.allocation_source = "prefix"
                  THEN allocate_next_ipv4_from_prefix(vm_store.ips, src.ipv4_prefix[1])
                  ELSE allocate_next_ipv4_from_range(vm_store.ips, src.ipv4_range[1],
                                                     vm_in.vrf)
       IN  IF got = None THEN VmRaise("No available IPv4 addresses remain")
           ELSE /\ vm' = [ vm EXCEPT !.pc = "assign", !.allocated_ipv4 = got,
                                     !.plans = @ + 1 ]
                /\ UNCHANGED vm_store
    /\ UNCHANGED << vm_snap, vm_in >>
    /\ VmFrame

\* lines 344-360: the IPAddress is created and made the primary IPv4.  full_clean()
\* of the address refuses a host address the VRF already has when the installation
\* enforces uniqueness, which is a setting: both outcomes are allowed for such an
\* address.  full_clean() of the virtual machine refuses custom field data of an
\* undefined custom field.
VmAssign ==
    /\ vm.pc = "assign"
    /\ IF ~SavesWhen(vm_in.commit)
       THEN vm' = [ vm EXCEPT !.pc = "extra" ] /\ UNCHANGED vm_store
       ELSE LET a == vm.allocated_ipv4[1]
                rec == IpRec(a.ip, a.mask, vm_in.vrf)
            IN  \/ /\ \E r \in vm_store.ips : r.ip = a.ip /\ r.vrf = vm_in.vrf
                   /\ VmRaise("ValidationError")
                \/ /\ rec \notin vm_store.ips
                   /\ IF vm.cf_dirty THEN VmRaise("ValidationError")
                      ELSE /\ vm_store' =
                                [ vm_store EXCEPT
                                    !.ips = @ \cup { rec },
                                    !.vms = { IF v.name = VmName
                                              THEN [ v EXCEPT !.primary_ip4 = Some(a) ]
                                              ELSE v : v \in @ } ]
                           /\ vm' = [ vm EXCEPT !.pc = "extra", !.plans = @ + 1 ]
    /\ UNCHANGED << vm_snap, vm_in >>
    /\ VmFrame

\* lines 365-372: up to two extra interfaces
VmExtraNics ==
    /\ vm.pc = "extra"
    /\ LET n == vm_in.extra_nics
           r2 == IF n >= 1
                 THEN create_interface(vm_store.ifaces, vm_in.commit, vm_in.nic2_name, None)
                 ELSE [ ifaces |-> vm_store.ifaces, raised |-> FALSE, made |-> FALSE ]
           r3 == IF n >= 2 /\ ~r2.raised
                 THEN create_interface(r2.ifaces, vm_in.commit, vm_in.nic3_name, None)
                 ELSE [ ifaces |-> r2.ifaces, raised |-> r2.raised, made |-> FALSE ]
       IN  IF r3.raised THEN VmRaise("ValidationError")
           ELSE /\ vm_store' = [ vm_store EXCEPT !.ifaces = r3.ifaces ]
                /\ vm' = [ vm EXCEPT !.pc = "disks",
                             !.plans = @ + (IF r2.made THEN 1 ELSE 0)
                                         + (IF r3.made THEN 1 ELSE 0)
                                         + (IF n > 2 THEN 1 ELSE 0) ]
    /\ UNCHANGED << vm_snap, vm_in >>
    /\ VmFrame

\* lines 396-401: the disks.  The count() of a disk without a name is taken on a
\* virtual machine that a dry run never saved: the ORM either answers 0 or raises
\* ValueError for the unsaved instance.
VmDisks ==
    /\ vm.pc = "disks"
    /\ LET count == Cardinality({ d \in vm_store.disks : d.vm = VmName })
           r1 == create_disk(vm_store.disks, vm_in.commit, vm_in.disk1_name,
                             vm_in.disk1_size, IF vm.vm_saved THEN count ELSE 0)
           r2 == create_disk(r1.disks, vm_in.commit, vm_in.disk2_name,
                             vm_in.disk2_size, 0)
       IN  \/ /\ vm_in.disk1_size # 0 /\ vm_in.disk1_name = << >> /\ ~vm.vm_saved
              /\ VmRaise("ValueError")
           \/ IF r1.raised \/ r2.raised THEN VmRaise("ValidationError")
              ELSE /\ vm_store' = [ vm_store EXCEPT !.disks = r2.disks ]
                   /\ vm' = [ vm EXCEPT !.pc = "summary",
                                !.plans = @ + (IF r1.made THEN 1 ELSE 0)
                                            + (IF r2.made THEN 1 ELSE 0) ]
    /\ UNCHANGED << vm_snap, vm_in >>
    /\ VmFrame

\* lines 406-448: the summary and the closing message, and the host ending the
\* transaction
VmSummary ==
    /\ vm.pc = "summary"
    /\ vm_store' = HostEnd(vm_in.commit, TRUE, vm_store, vm_snap)
    /\ vm' = [ vm EXCEPT !.pc = "done",
                 !.last = IF vm_in.commit THEN "committed" ELSE "dryrun",
                 !.message = IF vm_in.commit THEN "Created VM successfully"
                             ELSE "Dry-run complete (no changes saved)." ]
    /\ UNCHANGED << vm_snap, vm_in >>
    /\ VmFrame

VmNext ==
    VmCheck \/ VmCreate \/ VmPrimaryNic \/ VmAllocate \/ VmAssign \/ VmExtraNics
    \/ VmDisks \/ VmSummary

(***************************************************************************)
(* Claims                                                                  *)
(***************************************************************************)
IsBlank(s) == \A q \in 1..Len(s) : s[q] = " "

\* s[i..e-1] is the phrase: the word "Patch", whitespace, the word "Panel", in any case
IsPhraseOcc(s, i, e) ==
    \E k \in (i + 5)..(e - 6) :
        /\ e - 1 <= Len(s)
        /\ StrLower(SubSeq(s, i, i + 4)) = << "p","a","t","c","h" >>
        /\ \A q \in (i + 5)..k : s[q] = " "
        /\ e - 1 - k = 5
        /\ StrLower(SubSeq(s, k + 1, e - 1)) = << "p","a","n","e","l" >>
        /\ (i = 1 \/ ~IsWordChar(s[i - 1]))
        /\ (e > Len(s) \/ ~IsWordChar(s[e]))

\* r is the first whitespace-separated token of s (s holds a non-blank character)
IsFirstToken(s, r) ==
    \E a, b \in 1..Len(s) :
        /\ a <= b
        /\ \A q \in 1..(a - 1) : s[q] = " "
        /\ \A q \in a..b : s[q] # " "
        /\ (b = Len(s) \/ s[b + 1] = " ")
        /\ r = SubSeq(s, a, b)

\* what the claim says _extract_patch_panel_id(s) returns
PanelIdIs(s, r) ==
    LET occ == { o \in (1..Len(s)) \X (1..(Len(s) + 1)) : IsPhraseOcc(s, o[1], o[2]) }
    IN  IF occ = {} THEN r = None
        ELSE LET first == CHOOSE o \in occ : \A o2 \in occ : o[1] <= o2[1]
                 rest == Suffix(s, first[2])
             IN  IF IsBlank(rest) THEN r = None
                 ELSE r # None /\ IsFirstToken(rest, r[1])

\* C1: _extract_patch_panel_id returns the first whitespace-separated token after the
\* case-insensitive phrase 'Patch Panel' (internal hyphens kept), None when the phrase
\* is absent or nothing follows it; 'IDF-A Patch Panel PP-01 Left' gives 'PP-01' and
\* 'Patch Panel 3' gives '3'.
C1_ExtractPanelId ==
    x_pc = "done" =>
        /\ PanelIdIs(x_name, x_result)
        /\ (x_name = Example1 => x_result = Some(<< "P","P","-","0","1" >>))
        /\ (x_name = Example2 => x_result = Some(<< "3" >>))

C1_Witness ==
    /\ x_pc = "done"
    /\ x_name = Example1
    /\ x_result = Some(<< "P","P","-","0","1" >>)


\* the name a port had when the current run began
OrigFront(p) == snap.fports[p].name
PanelPP01 == << "P","P","-","0","1" >>
\* the panel id of a processed device of the model: 'PP-01' for d1, '3' for d2
PanelOf(d) == IF dev[d].name = Example1 THEN PanelPP01 ELSE << "3" >>
TwoDigits(k) == << "0", DigitSeq[k + 1] >>

\* C2: the front ports of a device are numbered in natural order of their current names
\* (numeric runs compared as integers) and the k-th is renamed
\* '<idf_label>-<panel_id>-<k as two digits>'; with idf_label 'A' and panel_id 'PP-01'
\* the ports named '1','2','10' become 'A-PP-01-01','A-PP-01-02','A-PP-01-03'.
C2_NaturalNumbering ==
    rn.pc = "front" =>
        /\ \A i, j \in DOMAIN rn.ports :
              (i < j /\ StrIsDigit(OrigFront(rn.ports[i])) /\ StrIsDigit(OrigFront(rn.ports[j])))
                  => StrToInt(OrigFront(rn.ports[i])) <= StrToInt(OrigFront(rn.ports[j]))
        /\ \A k \in 1..(rn.pi - 1) :
              fports[rn.ports[k]].name =
                  Strip(rn_in.idf_label) \o << "-" >> \o PanelOf(rn.devs[rn.di])
                      \o << "-" >> \o TwoDigits(k)
        /\ ( /\ rn.devs[rn.di] = "d1"
             /\ rn.pi > 3
             /\ OrigFront("f1") = << "2" >>
             /\ OrigFront("f2") = << "1","0" >>
             /\ OrigFront("f3") = << "1" >> )
           => /\ fports["f3"].name = << "A","-","P","P","-","0","1","-","0","1" >>
              /\ fports["f1"].name = << "A","-","P","P","-","0","1","-","0","2" >>
              /\ fports["f2"].name = << "A","-","P","P","-","0","1","-","0","3" >>

C2_Witness ==
    /\ rn.pc = "front"
    /\ rn.devs[rn.di] = "d1"
    /\ rn.pi = 4
    /\ OrigFront("f1") = << "2" >>
    /\ OrigFront("f2") = << "1","0" >>
    /\ OrigFront("f3") = << "1" >>
    /\ fports["f2"].name = << "A","-","P","P","-","0","1","-","0","3" >>

\* the devices a run processes: in scope, with a panel id and at least one port
Processed ==
    { d \in DevicesQs : /\ HasPhrase(dev[d].name)
                        /\ _extract_patch_panel_id(dev[d].name) # None
                        /\ PortsOf(fports, d) \cup PortsOf(rports, d) # {} }
PortCount(ds) ==
    Cardinality({ p \in DOMAIN fports : fports[p].device \in ds })
        + Cardinality({ p \in DOMAIN rports : rports[p].device \in ds })

\* C3: after a run that completed and was committed, a second run with the same
\* location, idf_label and clear_rear_label performs zero saves: every front and rear
\* port is reported 'already correct'.
C3_SecondRunNoSaves ==
    (rn.run >= 2 /\ rn.prev = "committed") =>
        /\ rn.saved = 0
        /\ rn.pc # "aborted"
        /\ (rn.pc = "done" => rn.already = PortCount(Processed))

C3_Witness ==
    /\ rn.run = 2
    /\ rn.prev = "committed"
    /\ rn.pc = "done"
    /\ rn.touched >= 1
    /\ rn.already >= 5


\* the run has handled its last device: before the host ends the transaction, and
\* after it when the run was committed
RenameComplete ==
    \/ rn.pc = "device" /\ rn.di > Len(rn.devs)
    \/ rn.pc = "done" /\ rn.last = "committed" /\ rn_in.commit
\* '<idf_label>-<panel_id>-NN' with NN the two digits of k
NumberedName(d, k) ==
    Strip(rn_in.idf_label) \o << "-" >> \o PanelOf(d) \o << "-" >> \o TwoDigits(k)

\* C11: when a run of RenamePatchPanelPortsCBSD completes, on every processed device
\* the front ports are named '<idf_label>-<panel_id>-NN' with label equal to name, the
\* rear ports '<idf_label>-<panel_id>-NN-R', the numbers of each kind are exactly
\* 1..count, and a rear label is empty when clear_rear_label is set and as it was
\* before the run when it is not.
C11_ProcessedPortsNumbered ==
    RenameComplete =>
        \A d \in Processed :
            LET fs == PortsOf(fports, d)
                rs == PortsOf(rports, d)
            IN  /\ { fports[p].name : p \in fs }
                       = { NumberedName(d, k) : k \in 1..Cardinality(fs) }
                /\ \A p \in fs : fports[p].label = fports[p].name
                /\ { rports[p].name : p \in rs }
                       = { NumberedName(d, k) \o << "-","R" >> : k \in 1..Cardinality(rs) }
                /\ \A p \in rs :
                       rports[p].label = IF rn_in.clear_rear_label THEN << >>
                                         ELSE snap.rports[p].label

\* a committed run that renamed the ports of two devices and kept a rear label
C11_Witness ==
    /\ rn.pc = "done" /\ rn.last = "committed" /\ rn.run = 1
    /\ rn.touched = 2 /\ rn.saved >= 5
    /\ ~rn_in.clear_rear_label
    /\ rports["r1"].label = OldLabel

\* the devices of the chosen location with the role and the tenant of the script
Eligible == { d \in DeviceIds : dev[d].inscope }
\* the front and rear ports of d are as they were when the run began
PortsUntouched(d) ==
    /\ \A p \in DOMAIN fports : fports[p].device = d => fports[p] = snap.fports[p]
    /\ \A p \in DOMAIN rports : rports[p].device = d => rports[p] = snap.rports[p]
NoPhrase == { d \in Eligible : ~HasPhrase(dev[d].name) }
NoId == { d \in Eligible \ NoPhrase : _extract_patch_panel_id(dev[d].name) = None }
NoPorts ==
    { d \in Eligible \ (NoPhrase \cup NoId) :
        \A p \in DOMAIN fports : fports[p].device # d /\
        \A q \in DOMAIN rports : rports[q].device # d }

\* C12: RenamePatchPanelPortsCBSD changes only ports of eligible devices (location,
\* role, tenant); an eligible device without the phrase, without an identifier or
\* without ports keeps its ports; when the loop is done, processed plus the three skip
\* counts is the number of devices found; a blank idf_label ends the run before a
\* device is read or changed.
C12_OnlyEligibleDevicesChange ==
    rn.pc # "off" =>
        /\ \A d \in DeviceIds :
              \/ PortsUntouched(d)
              \/ d \in Eligible \ (NoPhrase \cup NoId \cup NoPorts)
        /\ ((rn.pc = "device" /\ rn.di > Len(rn.devs)) \/ (rn.pc = "done" /\ rn.devs # << >>)) =>
              /\ rn.touched + rn.skipped_no_phrase + rn.skipped_no_id + rn.skipped_no_ports
                     = Cardinality(Eligible)
              /\ rn.skipped_no_phrase = Cardinality(NoPhrase)
              /\ rn.skipped_no_id = Cardinality(NoId)
              /\ rn.skipped_no_ports = Cardinality(NoPorts)
        /\ (rn.pc = "done" /\ Strip(rn_in.idf_label) = << >>) =>
              /\ rn.last = "blank"
              /\ rn.devs = << >>
              /\ rn.touched = 0 /\ rn.saved = 0
              /\ Store = snap

\* a committed run that renamed the ports of one device and skipped one without
\* ports, while a device of another location holds ports
C12_Witness ==
    /\ rn.pc = "done" /\ rn.last = "committed"
    /\ rn.touched = 1 /\ rn.skipped_no_ports = 1 /\ rn.saved >= 1
    /\ fports["f4"].device = "d3"

\* C13: while the ports of a device are renamed one after another, no port that is
\* about to be saved is given a name that another port of its kind on the device
\* holds at that moment, so no run fails on a collision with a port not yet renamed.
C13_RenameNeverCollides ==
    /\ (rn.pc = "front" /\ rn.pi <= Len(rn.ports)) =>
          LET fp == rn.ports[rn.pi]
              new_name == FrontName(rn.idf, rn.panel, rn.pi)
          IN  FrontNeedsChange(fports[fp].name, fports[fp].label, new_name)
                  => \A q \in PortsOf(fports, fports[fp].device) \ { fp } :
                         fports[q].name # new_name
    /\ (rn.pc = "rear" /\ rn.pi <= Len(rn.ports)) =>
          LET rp == rn.ports[rn.pi]
              new_name == RearName(rn.idf, rn.panel, rn.pi)
          IN  RearNeedsChange(rports[rp].name, rports[rp].label, new_name,
                              rn_in.clear_rear_label)
                  => \A q \in PortsOf(rports, rports[rp].device) \ { rp } :
                         rports[q].name # new_name
    /\ rn.pc # "aborted"

\* the bays the loop of the current run has already handled
BaysHandled == { by.qs[k] : k \in 1..(by.i - 1) }
\* a bay named 'J' whose position was blank and whose name and label are not numeric
IsBlankJ(b) ==
    /\ by_snap[b].name = << "J" >>
    /\ ~HasPosition(by_snap[b].position)
    /\ ~StrIsDigit(Strip(by_snap[b].label))

\* C4 as stated: a module bay named 'J' whose position is blank (name and label not
\* numeric) is given position 10 by the letter table that skips 'I'.
C4_Original_JIsTen ==
    by.pc = "loop" =>
        \A b \in BaysHandled : IsBlankJ(b) => bays[b].position = Some(<< "1","0" >>)

\* C4 amended: a module bay named 'J' whose position is blank (name and label not
\* numeric) is given position 9 by the letter table that skips 'I'.
C4_JIsNine ==
    by.pc = "loop" =>
        \A b \in BaysHandled : IsBlankJ(b) => bays[b].position = Some(<< "9" >>)

C4_Witness ==
    /\ by.pc = "loop"
    /\ "b1" \in BaysHandled
    /\ IsBlankJ("b1")
    /\ by_snap["b1"].label = << >>
    /\ bays["b1"].position = Some(<< "9" >>)

\* the steps of the port and bay scripts that saved a record changed the store
RenameWroteOnDiff == rn'.saved > rn.saved => Store' # Store
LabelWroteOnDiff ==
    /\ lp'.fsaved > lp.fsaved => lp_fports' # lp_fports
    /\ lp'.rsaved > lp.rsaved => lp_rports' # lp_rports
BayWroteOnDiff == by'.changed > by.changed => bays' # bays
\* the steps of ManagerPackGenerator that saved a permission or a saved filter
\* changed a permission or a saved filter
ManagerWroteOnDiff ==
    /\ mg'.perm_saves > mg.perm_saves => mg_store'.perms # mg_store.perms
    /\ mg'.filter_saves > mg.filter_saves => mg_store'.filters # mg_store.filters
\* every line ManagerPackGenerator processes saves its four permissions and its saved
\* filter, nothing compared
ManagerSavesEveryPack ==
    mg'.packs > mg.packs =>
        /\ mg'.packs = mg.packs + 1
        /\ mg'.perm_saves = mg.perm_saves + 4
        /\ mg'.filter_saves = mg.filter_saves + 1

\* C5 as stated: every script, ManagerPackGenerator included, saves a record only when
\* it differs from the desired state.
C5_Original_WriteOnlyOnDiff ==
    [][RenameWroteOnDiff /\ LabelWroteOnDiff /\ BayWroteOnDiff /\ ManagerWroteOnDiff]_vars

\* C5 (amended): RenamePatchPanelPortsCBSD, LabelPorts and FixModuleBayPositions save a
\* record only when it differs from the desired state, so each of their saves changes
\* the record; ManagerPackGenerator compares nothing and saves the four permissions and
\* the saved filter of every line it processes.
C5_WriteOnDiffExceptManager ==
    [][RenameWroteOnDiff /\ LabelWroteOnDiff /\ BayWroteOnDiff /\ ManagerSavesEveryPack]_vars

\* a second ManagerPackGenerator run has saved permissions and a saved filter that were
\* already as desired: the store is as the committed first run left it
C5_Witness ==
    /\ mg.run = 2 /\ mg.prev = "committed" /\ mg.pc = "lines"
    /\ mg.perm_saves >= 4 /\ mg.filter_saves >= 1
    /\ mg_store = mg_snap

NoDuplicates ==
    /\ \A j, k \in DOMAIN mg_store.perms :
          mg_store.perms[j].name = mg_store.perms[k].name => j = k
    /\ \A j, k \in DOMAIN mg_store.filters :
          mg_store.filters[j].slug = mg_store.filters[k].slug => j = k

\* C6: a ManagerPackGenerator run that follows a committed run with the same inputs
\* ends with the tags, groups, permissions and saved filters the first run left, has
\* created nothing, and no two permissions share a name nor two saved filters a slug.
C6_RerunLeavesSame ==
    mg.run >= 1 =>
        /\ NoDuplicates
        /\ (mg.pc = "done" /\ mg.prev = "committed") => mg_store = mg_snap
        /\ (mg.prev = "committed") => mg.created = 0

\* a committed second run that processed a line after a committed first run
C6_Witness ==
    /\ mg.pc = "done" /\ mg.run = 2 /\ mg.prev = "committed" /\ mg_in.commit
    /\ mg.packs >= 1
    /\ Len(mg_store.perms) >= 4 /\ Len(mg_store.filters) >= 1
    /\ mg_store.tags # {} /\ mg_store.groups # {}

C8_DryRunSavesNothing ==
    (vm.pc # "idle" /\ ~vm_in.commit) =>
        /\ vm_store = vm_snap
        /\ vm.pc = "done" =>
              /\ vm.message = "Dry-run complete (no changes saved)."
              /\ vm.plans >= 3

\* a dry run that planned a virtual machine, interfaces, an address and disks
C8_Witness ==
    /\ vm.pc = "done" /\ ~vm_in.commit /\ vm.run = 1
    /\ vm_in.extra_nics >= 1 /\ vm_in.disk1_size > 0
    /\ vm.allocated_ipv4 # None

C14_ExistingPositionKept ==
    by.pc # "off" =>
        /\ \A b \in BayIds :
              (by_snap[b].position # None /\ by_snap[b].position # Some(<< >>))
                  => bays[b].position = by_snap[b].position
        /\ (by.run >= 2 /\ by.prev = "committed") =>
              /\ by.changed = 0
              /\ bays = by_snap
              /\ by.pc # "aborted"

\* a second run, all bays in scope, after a committed run that gave bay J position 9:
\* the bay is skipped
C14_Witness ==
    /\ by.run = 2 /\ by.prev = "committed" /\ by.pc = "done"
    /\ ~by_in.only_missing /\ by_in.devices = {}
    /\ by.skipped = 2
    /\ bays["b1"].position = Some(<< "9" >>)
    /\ bays["b2"].position = Some(<< "4" >>)

\* the number the letter table gives a one-letter text: A..H are 1..8, I has none,
\* J..Z are 9..25
LetterValue(s) ==
    IF Len(s) # 1 \/ s[1] \notin UpperSet THEN None
    ELSE LET k == CHOOSE j \in DOMAIN UpperSeq : UpperSeq[j] = s[1]
         IN  IF k < 9 THEN Some(k) ELSE IF k = 9 THEN None ELSE Some(k - 1)
AllDigits(s) == s # << >> /\ \A k \in DOMAIN s : s[k] \in DigitSet
\* the position the priority of the claim gives a bay, from its name and label as
\* they were when the run began (both read without surrounding whitespace)
ExpectedPos(b) ==
    LET name == Strip(by_snap[b].name)
        label == Strip(by_snap[b].label)
    IN  IF AllDigits(name) THEN Some(StrToInt(name))
        ELSE IF AllDigits(label) THEN Some(StrToInt(label))
        ELSE IF LetterValue(StrUpper(name)) # None THEN LetterValue(StrUpper(name))
        ELSE LetterValue(StrUpper(label))
BlankHandled ==
    { b \in BaysHandled : by_snap[b].position = None \/ by_snap[b].position = Some(<< >>) }

\* C15: a blank bay gets its position by fixed priority: the name if all digits, else
\* the label if all digits, else the letter-table value of the upper-cased name, else
\* that of the upper-cased label; when none applies the bay is left unchanged and
\* counted as a warning.  The stored position is the decimal string of the number.
C15_DerivedByPriority ==
    (by.pc = "loop" \/ (by.pc = "done" /\ by_in.commit)) =>
        /\ \A b \in BlankHandled :
              IF ExpectedPos(b) = None
              THEN bays[b].position = by_snap[b].position
              ELSE bays[b].position = Some(IntToStr(ExpectedPos(b)[1]))
        /\ by.warned = Cardinality({ b \in BlankHandled : ExpectedPos(b) = None })

\* a committed run over a bay named 'I' with no label, which is warned about, and a
\* bay named '07' with label '5', which gets position '7'
C15_Witness ==
    /\ by.pc = "done" /\ by_in.commit /\ by.run = 1
    /\ by_snap["b1"].name = << "I" >> /\ by_snap["b1"].label = << >>
    /\ by_snap["b1"].position = None /\ bays["b1"].position = None
    /\ by_snap["b2"].name = << "0","7" >> /\ by_snap["b2"].label = << "5" >>
    /\ by_snap["b2"].position = Some(<< >>) /\ bays["b2"].position = Some(<< "7" >>)
    /\ by.warned = 1 /\ by.changed = 1

\* a definition line the script is to skip: no comma, nothing but spaces before the
\* first comma or after it, or a tag that does not exist while tags may not be created
SkippedLine(ln) ==
    \/ \A k \in DOMAIN ln : ln[k] # ","
    \/ LET c == CHOOSE k \in DOMAIN ln : ln[k] = "," /\ \A q \in 1..(k - 1) : ln[q] # ","
       IN  \/ \A q \in 1..(c - 1) : ln[q] = " "
           \/ \A q \in (c + 1)..Len(ln) : ln[q] = " "
           \/ /\ ~mg_in.create_missing_tags
              /\ Strip(SubSeq(ln, c + 1, Len(ln))) \notin mg_store.tags
\* the step of the loop that handles line mg.i
LineStep == mg.pc = "lines" /\ mg.i <= Len(mg.lines) /\ mg'.i = mg.i + 1

\* C16: a definition line that is skipped creates or modifies no tag, group,
\* permission or saved filter, and the lines after it are still processed: the loop
\* ends only after the last line, each line skipped or processed once; a text with no
\* non-blank line ends the run with nothing created.
C16_SkippedLineChangesNothing ==
    [][ /\ (LineStep /\ SkippedLine(mg.lines[mg.i])) =>
              /\ mg_store' = mg_store
              /\ mg'.skipped = mg.skipped + 1 /\ mg'.packs = mg.packs
              /\ mg'.pc = "lines"
        /\ (LineStep /\ ~SkippedLine(mg.lines[mg.i])) =>
              mg'.packs = mg.packs + 1 /\ mg'.skipped = mg.skipped
        /\ (mg'.pc = "done" /\ mg'.lines # << >>) =>
              mg'.packs + mg'.skipped = Len(mg'.lines)
        /\ (mg'.pc = "done" /\ mg'.last = "nodefinitions") =>
              /\ mg_store' = mg_snap'
              /\ mg'.lines = << >> /\ mg'.packs = 0
              /\ \A k \in DOMAIN mg_in.definitions :
                     \A q \in DOMAIN mg_in.definitions[k] : mg_in.definitions[k][q] = " "
      ]_vars

\* a run that skipped a line whose tag is missing and processed the line after it
C16_Witness ==
    /\ mg.pc = "done" /\ mg.run = 1 /\ mg_in.commit
    /\ ~mg_in.create_missing_tags
    /\ mg.lines = << << "X", ",", "b" >>, << "X", ",", "a" >> >>
    /\ mg.skipped = 1 /\ mg.packs = 1
    /\ Len(mg_store.perms) = 4

\* the permission table st holds exactly one permission of that name, enabled, with
\* these actions and constraints, one object type and the one group
OnePermission(st, name, actions, constraints, object_type, group) ==
    /\ Cardinality({ k \in DOMAIN st.perms : st.perms[k].name = name }) = 1
    /\ \A k \in DOMAIN st.perms :
          st.perms[k].name = name =>
              /\ st.perms[k].enabled
              /\ st.perms[k].actions = actions
              /\ st.perms[k].constraints = constraints
              /\ st.perms[k].object_types = { object_type }
              /\ st.perms[k].groups = { group }
\* the four permissions of the pack of 'label,tag_slug' as the claim lists them
FourPermissions(st, label, tag_slug) ==
    LET group == << "M","a","n","a","g","e","r"," ","u2013"," " >> \o label
        named(kind) == label \o << " ","u2013"," " >> \o kind
    IN  /\ OnePermission(st, named(<< "D","e","v","i","c","e","s" >>),
                         << "view", "change" >>, { << "tags__slug", tag_slug >> },
                         "dcim.device", group)
        /\ OnePermission(st, named(<< "I","n","t","e","r","f","a","c","e","s" >>),
                         << "view", "change" >>, { << "device__tags__slug", tag_slug >> },
                         "dcim.interface", group)
        /\ OnePermission(st, named(<< "P","r","e","f","i","x","e","s" >>),
                         << "view" >>, {}, "ipam.prefix", group)
        /\ OnePermission(st, named(<< "I","P"," ","A","d","d","r","e","s","s","e","s" >>),
                         << "view", "add", "change" >>, {}, "ipam.ipaddress", group)
        /\ group \in st.groups
        /\ Cardinality({ k \in DOMAIN st.perms :
                           /\ Len(st.perms[k].name) > Len(label) + 3
                           /\ SubSeq(st.perms[k].name, 1, Len(label) + 3)
                                  = label \o << " ","u2013"," " >> }) = 4

\* C17: right after ManagerPackGenerator has processed a line 'Label,tag-slug',
\* exactly four enabled permissions named for the label exist, with the actions and
\* constraints of Devices, Interfaces, Prefixes and IP Addresses, each with one object
\* type and with the one group 'Manager - Label', whatever groups it had before.
C17_FourPermissionsPerLine ==
    [][ (LineStep /\ mg'.packs = mg.packs + 1) =>
            FourPermissions(mg_store', Strip(BeforeComma(mg.lines[mg.i])),
                            Strip(AfterComma(mg.lines[mg.i])))
      ]_vars

\* a committed run that processed 'X,a' over a Devices permission that was disabled,
\* view-only and attached to another group
C17_Witness ==
    /\ mg.pc = "done" /\ mg.run = 1 /\ mg_in.commit /\ mg.packs = 1
    /\ mg.lines = << << "X", ",", "a" >> >>
    /\ mg_snap.perms = << StalePerm >>
    /\ Len(mg_store.perms) = 4
    /\ mg_store.perms[1].groups = { GroupName(<< "X" >>) }
    /\ mg_store.perms[1].enabled

\* an IPAddress record of the selected VRF has the host address a, whatever its mask
AddressTaken(a) == \E r \in vm_store.ips : r.ip = a /\ r.vrf = vm_in.vrf

\* C18: allocate_next_ipv4_from_range returns the lowest address of start..end that no
\* IPAddress record of the selected VRF has, written with the prefix length of the
\* start address, and raises 'No available IPv4 addresses remain' only when every
\* address of the range is taken.
C18_RangeReturnsNextFree ==
    vm_in.source.allocation_source = "range" =>
        /\ vm.pc = "assign" =>
              LET rng == vm_in.source.ipv4_range[1]
                  a == vm.allocated_ipv4[1]
              IN  /\ a.ip \in rng.start..rng.end
                  /\ a.mask = rng.mask
                  /\ ~AddressTaken(a.ip)
                  /\ \A b \in rng.start..(a.ip - 1) : AddressTaken(b)
        /\ (vm.pc = "raised" /\ vm.message = "No available IPv4 addresses remain") =>
              LET rng == vm_in.source.ipv4_range[1]
              IN  \A b \in rng.start..rng.end : AddressTaken(b)

\* the row is blank, short, a header, or names a device or a front port that is absent
RowToSkip(row) ==
    \/ row = << >>
    \/ \A k \in DOMAIN row : Strip(row[k]) = << >>
    \/ Len(row) < 4
    \/ StrLower(Strip(row[1])) = << "d","e","v","i","c","e","n","a","m","e" >>
    \/ Strip(row[1]) # << "S","W","1" >>
    \/ ~\E p \in DOMAIN lp_fports :
            lp_fports[p].device = Strip(row[1]) /\ lp_fports[p].name = Strip(row[2])
\* a step of LabelPorts that takes the row at lp.i
RowStep == lp.pc = "rows" /\ lp.i <= Len(lp.rows) /\ lp' # lp

\* C19: LabelPorts changes no record for a row that is blank, has fewer than four
\* columns, is a header row, names a device that does not exist or names a front port
\* the device has not; the row is counted as skipped and the loop goes on to the next
\* row, so a finished run has taken every row.  Empty input ends the run at once with
\* no change.
C19_SkippedRowChangesNothing ==
    /\ [][ (RowStep /\ RowToSkip(lp.rows[lp.i])) =>
              /\ lp_fports' = lp_fports /\ lp_rports' = lp_rports
              /\ lp'.skipped = lp.skipped + 1
              /\ lp'.i = lp.i + 1 /\ lp'.pc = "rows"
              /\ lp'.fsaved = lp.fsaved /\ lp'.rsaved = lp.rsaved
         ]_vars
    /\ []((lp.pc = "done" /\ lp.last # "nodata") => lp.i = Len(lp.rows) + 1)
    /\ [](lp.last = "nodata" =>
              /\ StripText(lp_in.csvdata) = << >>
              /\ lp.pc = "done" /\ lp.rows = << >>
              /\ lp_fports = lp_snap.fports /\ lp_rports = lp_snap.rports)

\* a run whose first row names a port the device has not, whose second row is blank
\* and whose third row was saved
C19_Witness ==
    /\ lp.pc = "done" /\ lp.run = 1 /\ Len(lp.rows) = 3
    /\ lp.rows[1] = << << "S","W","1" >>, << "9" >>, << "A","1" >>, << "d" >> >>
    /\ lp.rows[2] = << >>
    /\ lp.skipped = 2 /\ lp.fsaved = 1

\* C20: a LabelPorts run that follows a committed run with the same CSV text saves no
\* front port and no rear port, whatever the text.
C20_SecondRunWritesNothing ==
    (lp.run = 2 /\ lp.prev = "committed") => (lp.fsaved = 0 /\ lp.rsaved = 0)

\* C21: at the end of a LabelPorts run that read rows, Updated + Skipped is the number
\* of rows the CSV reader produced and Updated is the number of rows that saved a front
\* port or a rear port.
C21_CountsAccountForRows ==
    (lp.pc = "done" /\ lp.last # "nodata") =>
        /\ lp.updated + lp.skipped = Len(lp.rows)
        /\ lp.updated = lp.wrote

\* the bays a run has in scope, from the records as they were when it began
InScope ==
    { b \in BayIds :
        /\ (by_in.devices = {} \/ by_snap[b].device \in by_in.devices)
        /\ (by_in.only_missing =>
                (by_snap[b].position = None \/ by_snap[b].position = Some(<< >>))) }
PositionWritten == { b \in BayIds : bays[b].position # by_snap[b].position }

\* C10: each module bay in scope is counted exactly once: at the end of a run
\* Updated + Skipped + Warnings equals the 'Module bays in scope' total, and Updated
\* equals the number of bays whose position was written.
C10_CountsAddUp ==
    /\ (by.pc = "loop" /\ by.i > Len(by.qs)) =>
          /\ by.changed + by.skipped + by.warned = by.total
          /\ by.total = Cardinality(InScope)
          /\ by.changed = Cardinality(PositionWritten)
    /\ by.pc = "done" =>
          /\ by.changed + by.skipped + by.warned = by.total
          /\ by.total = Cardinality(InScope)
          /\ (by_in.commit => by.changed = Cardinality(PositionWritten))

C10_Witness ==
    /\ by.pc = "done"
    /\ by_in.commit
    /\ by.total = 2
    /\ by.changed = 1
    /\ by.warned = 1

(***************************************************************************)
(* Specifications: one script at a time, the others at rest (pc = "off")   *)
(***************************************************************************)
XRest == XInit
RnRest ==
    /\ dev = [ d \in DeviceIds |-> [name |-> << >>, inscope |-> FALSE] ]
    /\ fports = << >>
    /\ rports = << >>
    /\ snap = << >>
    /\ rn_in = << >>
    /\ rn = [ RnIdle EXCEPT !.pc = "off" ]

ByRest ==
    /\ bays = << >>
    /\ by_snap = << >>
    /\ by_in = << >>
    /\ by = [ ByIdle EXCEPT !.pc = "off" ]

LpRest ==
    /\ lp_fports = << >>
    /\ lp_rports = << >>
    /\ lp_snap = << >>
    /\ lp_in = << >>
    /\ lp = [ LpIdle EXCEPT !.pc = "off" ]

MgRest ==
    /\ mg_store = << >>
    /\ mg_snap = << >>
    /\ mg_in = << >>
    /\ mg = [ MgIdle EXCEPT !.pc = "off" ]

VmRest ==
    /\ vm_store = << >>
    /\ vm_snap = << >>
    /\ vm_in = << >>
    /\ vm = [ VmIdle EXCEPT !.pc = "off" ]

InitExtract == XInit /\ RnRest /\ ByRest /\ LpRest /\ MgRest /\ VmRest
InitRename == RnInit /\ XRest /\ ByRest /\ LpRest /\ MgRest /\ VmRest
InitBay == ByInit /\ XRest /\ RnRest /\ LpRest /\ MgRest /\ VmRest
InitLabel == LpInit /\ XRest /\ RnRest /\ ByRest /\ MgRest /\ VmRest
InitManager == MgInit /\ XRest /\ RnRest /\ ByRest /\ LpRest /\ VmRest
InitVM == VmInit /\ XRest /\ RnRest /\ ByRest /\ LpRest /\ MgRest

SpecExtract == InitExtract /\ [][XNext]_vars
SpecRename == InitRename /\ [][RnNext]_vars
SpecBay == InitBay /\ [][ByNext]_vars
SpecLabel == InitLabel /\ [][LpNext]_vars
SpecManager == InitManager /\ [][MgNext]_vars
SpecVM == InitVM /\ [][VmNext]_vars

\* the scripts that update existing records, any one of them run
InitScripts == InitRename \/ InitBay \/ InitLabel \/ InitManager
ScriptsNext == RnNext \/ ByNext \/ LpNext \/ MgNext
SpecScripts == InitScripts /\ [][ScriptsNext]_vars

====
